---- MODULE Spec2Model ----
(***************************************************************************)
(* Readmission-risk inference pipeline of Backend/app/utils:               *)
(*   ModelManager.predict  (model.py)                                      *)
(*   DataPreprocessor      (data_preprocessing.py)                         *)
(*                                                                         *)
(* Number representation (Python floats are modelled in fixed point):      *)
(*   - a probability p is the integer 100*p          (ProbScale)           *)
(*   - a model importance w is the integer 700*w     (ImpScale; 700 so     *)
(*     that the uniform weight 1/7 is the integer 100)                     *)
(*   - a weighted factor score s is the integer 7000*s (ScoreScale):       *)
(*     importance (1/700) times a raw value times a multiplier in tenths   *)
(*   - raw numerical inputs are integers; Inf stands for a non-finite      *)
(*     float (float('inf')), which only ever compares greater.             *)
(***************************************************************************)
EXTENDS Integers, Sequences, FiniteSets, TLC

VARIABLES
    model,            \* ModelManager.model            (loaded classifier)
    scaler,           \* DataPreprocessor.scaler       (fitted StandardScaler)
    label_encoders,   \* DataPreprocessor.label_encoders
    feature_names,    \* DataPreprocessor.feature_names
    risk_thresholds,  \* ModelManager.risk_thresholds
    pc,               \* position of the request inside predict
    data,             \* the request's input record
    X,                \* local X of predict (scaled vector)
    prediction_proba, \* local prediction_proba of predict
    feature_importances, \* local feature_importances of predict
    contributing_factors, \* local contributing_factors of predict
    recommendations,  \* local recommendations of predict
    result,           \* the (body, code) pair predict returned
    top_n,            \* the top_n argument of get_contributing_factors
    calls             \* the stages this request has invoked, in order

vars == <<model, scaler, label_encoders, feature_names, risk_thresholds, pc,
          data, X, prediction_proba, feature_importances,
          contributing_factors, recommendations, result, top_n, calls>>

artifacts == <<model, scaler, label_encoders, feature_names, risk_thresholds>>

locals == <<X, prediction_proba, feature_importances, contributing_factors,
            recommendations>>

-----------------------------------------------------------------------------
(* Scales of the fixed-point representation *)

ProbScale == 10 * 10
ImpScale == 7 * 100
ScoreScale == ImpScale * 10

\* float('inf'): larger than every finite value of the model
Inf == 1000 * 1000

Abs(n) == IF n < 0 THEN -n ELSE n

Min(a, b) == IF a <= b THEN a ELSE b

-----------------------------------------------------------------------------
(* Sequence helpers (Python list / str operations) *)

RECURSIVE Join(_, _)
\* sep.join(strs)
Join(strs, sep) ==
    IF strs = << >> THEN ""
    ELSE IF Len(strs) = 1 THEN strs[1]
    ELSE strs[1] \o sep \o Join(Tail(strs), sep)

\* x in seq
In(x, seq) == \E i \in 1..Len(seq) : seq[i] = x

\* s.startswith(prefix)
StartsWith(s, prefix) ==
    /\ Len(s) >= Len(prefix)
    /\ SubSeq(s, 1, Len(prefix)) = prefix

\* seq[:n]
Take(seq, n) == SubSeq(seq, 1, Min(n, Len(seq)))

-----------------------------------------------------------------------------
(* Config (utils/config.py) *)

LowThreshold == 30

MediumThreshold == 60

Config_RISK_THRESHOLDS == [low |-> LowThreshold, medium |-> MediumThreshold]

Config_REQUIRED_FEATURES ==
    <<"age", "gender", "primary_diagnosis", "num_procedures",
      "days_in_hospital", "comorbidity_score", "discharge_to">>

Config_MODEL_VERSION == "1.0.0"

-----------------------------------------------------------------------------
(* DataPreprocessor.__init__ feature groups *)

categorical_features == <<"gender", "primary_diagnosis", "discharge_to">>

numerical_features ==
    <<"age", "num_procedures", "days_in_hospital", "comorbidity_score">>

required_features == numerical_features \o categorical_features

-----------------------------------------------------------------------------
(* DataPreprocessor.validate_features *)

\* feat in data
Has(d, feat) == feat \in DOMAIN d

RECURSIVE MissingFrom(_, _)
\* [feat for feat in feats if feat not in d]
MissingFrom(feats, d) ==
    IF feats = << >> THEN << >>
    ELSE IF Has(d, feats[1]) THEN MissingFrom(Tail(feats), d)
    ELSE <<feats[1]>> \o MissingFrom(Tail(feats), d)

\* the scan stopped at the first absent key
missing_features_FirstOnly(d) == Take(MissingFrom(required_features, d), 1)

missing_features(d) == MissingFrom(required_features, d)

\* the age range taken as open (0 < age < 120)
validation_errors_AgeOpen(d, encoders) ==
    (IF ~(0 < d["age"] /\ d["age"] < 120)
        THEN <<"Age must be between 0 and 120">> ELSE << >>)
    \o (IF d["num_procedures"] < 0
        THEN <<"Number of procedures cannot be negative">> ELSE << >>)
    \o (IF d["days_in_hospital"] < 0
        THEN <<"Days in hospital cannot be negative">> ELSE << >>)
    \o (IF d["comorbidity_score"] < 0
        THEN <<"Comorbidity score cannot be negative">> ELSE << >>)
    \o (IF ~In(d["gender"], encoders["gender"])
        THEN <<"Gender must be one of: " \o Join(encoders["gender"], ", ")>>
        ELSE << >>)
    \o (IF ~In(d["primary_diagnosis"], encoders["primary_diagnosis"])
        THEN <<"Invalid primary diagnosis code">> ELSE << >>)
    \o (IF ~In(d["discharge_to"], encoders["discharge_to"])
        THEN <<"Discharge destination must be one of: "
               \o Join(encoders["discharge_to"], ", ")>>
        ELSE << >>)

\* the diagnosis message listing the vocabulary like the other two
validation_errors_DiagListed(d, encoders) ==
    (IF ~(0 <= d["age"] /\ d["age"] <= 120)
        THEN <<"Age must be between 0 and 120">> ELSE << >>)
    \o (IF d["num_procedures"] < 0
        THEN <<"Number of procedures cannot be negative">> ELSE << >>)
    \o (IF d["days_in_hospital"] < 0
        THEN <<"Days in hospital cannot be negative">> ELSE << >>)
    \o (IF d["comorbidity_score"] < 0
        THEN <<"Comorbidity score cannot be negative">> ELSE << >>)
    \o (IF ~In(d["gender"], encoders["gender"])
        THEN <<"Gender must be one of: " \o Join(encoders["gender"], ", ")>>
        ELSE << >>)
    \o (IF ~In(d["primary_diagnosis"], encoders["primary_diagnosis"])
        THEN <<"Invalid primary diagnosis code. Valid codes: "
               \o Join(encoders["primary_diagnosis"], ", ")>>
        ELSE << >>)
    \o (IF ~In(d["discharge_to"], encoders["discharge_to"])
        THEN <<"Discharge destination must be one of: "
               \o Join(encoders["discharge_to"], ", ")>>
        ELSE << >>)

\* the validation_errors list built by the seven checks, in code order
validation_errors(d, encoders) ==
    (IF ~(0 <= d["age"] /\ d["age"] <= 120)
        THEN <<"Age must be between 0 and 120">> ELSE << >>)
    \o (IF d["num_procedures"] < 0
        THEN <<"Number of procedures cannot be negative">> ELSE << >>)
    \o (IF d["days_in_hospital"] < 0
        THEN <<"Days in hospital cannot be negative">> ELSE << >>)
    \o (IF d["comorbidity_score"] < 0
        THEN <<"Comorbidity score cannot be negative">> ELSE << >>)
    \o (IF ~In(d["gender"], encoders["gender"])
        THEN <<"Gender must be one of: " \o Join(encoders["gender"], ", ")>>
        ELSE << >>)
    \o (IF ~In(d["primary_diagnosis"], encoders["primary_diagnosis"])
        THEN <<"Invalid primary diagnosis code">> ELSE << >>)
    \o (IF ~In(d["discharge_to"], encoders["discharge_to"])
        THEN <<"Discharge destination must be one of: "
               \o Join(encoders["discharge_to"], ", ")>>
        ELSE << >>)

\* the value checks short-circuited on the first error
validate_features_FirstError(d, encoders) ==
    IF missing_features(d) # << >>
    THEN [is_valid |-> FALSE,
          error_message |-> "Missing required features: "
                            \o Join(missing_features(d), ", ")]
    ELSE IF validation_errors(d, encoders) # << >>
    THEN [is_valid |-> FALSE,
          error_message |-> validation_errors(d, encoders)[1]]
    ELSE [is_valid |-> TRUE, error_message |-> ""]

\* returns the pair (is_valid, error_message)
validate_features(d, encoders) ==
    IF missing_features(d) # << >>
    THEN [is_valid |-> FALSE,
          error_message |-> "Missing required features: "
                            \o Join(missing_features(d), ", ")]
    ELSE IF validation_errors(d, encoders) # << >>
    THEN [is_valid |-> FALSE,
          error_message |-> Join(validation_errors(d, encoders), "; ")]
    ELSE [is_valid |-> TRUE, error_message |-> ""]

-----------------------------------------------------------------------------
(* DataPreprocessor.preprocess_features *)

\* data.get(feature, default)
Get(d, feature, default) == IF Has(d, feature) THEN d[feature] ELSE default

\* position of x in seq (0 when absent)
RECURSIVE IndexOf(_, _)
IndexOf(x, seq) ==
    IF seq = << >> THEN 0
    ELSE IF seq[1] = x THEN 1
    ELSE IF IndexOf(x, Tail(seq)) = 0 THEN 0
    ELSE 1 + IndexOf(x, Tail(seq))

\* LabelEncoder.transform([value])[0]: the 0-based rank of value in classes_
\* (callers check In(value, classes) first: transform raises otherwise)
LabelTransform(classes, value) == IndexOf(value, classes) - 1

\* str(classes_) of a numpy array of strings
ClassesRepr(classes) ==
    "[" \o Join([i \in 1..Len(classes) |-> "'" \o classes[i] \o "'"], " ") \o "]"

\* first categorical feature whose value the encoder does not know, or ""
RECURSIVE FirstUnknown(_, _, _)
FirstUnknown(feats, d, encoders) ==
    IF feats = << >> THEN ""
    ELSE IF ~In(Get(d, feats[1], ""), encoders[feats[1]]) THEN feats[1]
    ELSE FirstUnknown(Tail(feats), d, encoders)

\* the two loops in the other order (categorical, then numerical)
feature_vector_CatFirst(d, encoders) ==
    [i \in 1..Len(categorical_features) |->
          LabelTransform(encoders[categorical_features[i]],
                         Get(d, categorical_features[i], ""))]
    \o [i \in 1..Len(numerical_features) |-> Get(d, numerical_features[i], 0)]

\* feature_vector after both loops (numerical, then categorical)
feature_vector(d, encoders) ==
    [i \in 1..Len(numerical_features) |-> Get(d, numerical_features[i], 0)]
    \o [i \in 1..Len(categorical_features) |->
          LabelTransform(encoders[categorical_features[i]],
                         Get(d, categorical_features[i], ""))]

\* StandardScaler.transform(X): (x - mean_i) / scale_i per column, kept as the
\* exact fraction <<numerator, denominator>>; raises ValueError on a
\* non-finite input or on a column count other than the fitted one
ScalerRaises(sc, v) ==
    IF \E i \in 1..Len(v) : v[i] >= Inf
    THEN "Input X contains infinity or a value too large for dtype('float64')."
    ELSE IF Len(v) # Len(sc.mean_)
    THEN "X has a different number of features than StandardScaler is expecting"
    ELSE ""

ScalerTransform(sc, v) ==
    [i \in 1..Len(v) |-> <<v[i] - sc.mean_[i], sc.scale_[i]>>]

\* an unknown category encoded instead of raising
preprocess_features_Lenient(d, encoders, sc) ==
    IF ScalerRaises(sc, feature_vector(d, encoders)) # ""
    THEN [raised |-> ScalerRaises(sc, feature_vector(d, encoders)), X |-> << >>]
    ELSE [raised |-> "",
          X |-> ScalerTransform(sc, feature_vector(d, encoders))]

\* returns [raised |-> message or "", X |-> the scaled vector]
preprocess_features(d, encoders, sc) ==
    LET bad == FirstUnknown(categorical_features, d, encoders) IN
    IF bad # ""
    THEN [raised |-> "Invalid value for " \o bad \o ": " \o Get(d, bad, "")
                     \o ". Valid values are: " \o ClassesRepr(encoders[bad]),
          X |-> << >>]
    ELSE IF ScalerRaises(sc, feature_vector(d, encoders)) # ""
    THEN [raised |-> ScalerRaises(sc, feature_vector(d, encoders)), X |-> << >>]
    ELSE [raised |-> "",
          X |-> ScalerTransform(sc, feature_vector(d, encoders))]

-----------------------------------------------------------------------------
(* The loaded classifier (opaque): a stub with a fixed positive-class        *)
(* probability, optional importance attributes, and an optional failure.    *)
(*   kind "tree"   : exposes feature_importances_                           *)
(*   kind "linear" : exposes coef_ (a list of rows)                         *)
(*   kind "both"   : exposes both                                           *)
(*   kind "opaque" : exposes neither                                        *)
(*   kind "faulty" : exposes a coef_ without rows, so coef_[0] raises       *)

\* hasattr(self.model, name) for the two importance attributes
hasattr(m, name) ==
    CASE name = "feature_importances_" -> m.kind \in {"tree", "both"}
      [] name = "coef_" -> m.kind \in {"linear", "both", "faulty"}
      [] OTHER -> FALSE

\* model.predict_proba(X)[0][1]: [raised |-> message or "", proba |-> p]
predict_proba(m, x) ==
    IF m.raises # "" THEN [raised |-> m.raises, proba |-> 0]
    ELSE [raised |-> "", proba |-> m.proba]

(* ModelManager._get_feature_importances *)

\* np.ones(len(Config.REQUIRED_FEATURES)) / len(Config.REQUIRED_FEATURES)
UniformImportances ==
    [i \in 1..Len(Config_REQUIRED_FEATURES) |->
        ImpScale \div Len(Config_REQUIRED_FEATURES)]

\* the linear branch without np.abs
_get_feature_importances_NoAbs(m) ==
    IF hasattr(m, "feature_importances_") THEN m.feature_importances_
    ELSE IF hasattr(m, "coef_")
    THEN IF Len(m.coef_) = 0
         THEN UniformImportances
         ELSE m.coef_[1]
    ELSE UniformImportances

_get_feature_importances(m) ==
    IF hasattr(m, "feature_importances_") THEN m.feature_importances_
    ELSE IF hasattr(m, "coef_")
    THEN IF Len(m.coef_) = 0
         THEN UniformImportances   \* coef_[0] raises, caught by except
         ELSE [i \in 1..Len(m.coef_[1]) |-> Abs(m.coef_[1][i])]
    ELSE UniformImportances

\* the tier mapper with closed upper ends (<= for <)
_determine_risk_level_Closed(probability, thresholds) ==
    IF probability <= thresholds.low THEN "Low"
    ELSE IF probability <= thresholds.medium THEN "Medium"
    ELSE "High"

\* the tier mapper with the Medium and High results exchanged
_determine_risk_level_Swapped(probability, thresholds) ==
    IF probability < thresholds.low THEN "Low"
    ELSE IF probability < thresholds.medium THEN "High"
    ELSE "Medium"

(* ModelManager._determine_risk_level *)
_determine_risk_level(probability, thresholds) ==
    IF probability < thresholds.low THEN "Low"
    ELSE IF probability < thresholds.medium THEN "Medium"
    ELSE "High"

\* the confidence without abs: 1 - 2 * (0.5 - probability)
_calculate_confidence_Signed(probability) ==
    ProbScale - 2 * (ProbScale \div 2 - probability)

(* ModelManager._calculate_confidence: 1 - 2 * abs(0.5 - probability) *)
_calculate_confidence(probability) ==
    ProbScale - 2 * Abs(ProbScale \div 2 - probability)

-----------------------------------------------------------------------------
(* DataPreprocessor.get_contributing_factors                                *)
(* A dict is the sequence of its <<key, value>> items in insertion order.   *)

TopNDefault == 5

\* d[key] = value on an insertion-ordered dict
RECURSIVE DictSet(_, _, _)
DictSet(items, key, value) ==
    IF items = << >> THEN << <<key, value>> >>
    ELSE IF items[1][1] = key THEN << <<key, value>> >> \o Tail(items)
    ELSE <<items[1]>> \o DictSet(Tail(items), key, value)

\* the long-stay weight granted from 7 days on (>= for >)
feature_weight_Inclusive(feature, value) ==
    IF feature = "comorbidity_score" THEN 13
    ELSE IF feature = "days_in_hospital" THEN (IF value >= 7 THEN 12 ELSE 10)
    ELSE IF feature = "primary_diagnosis" THEN 12
    ELSE 10

\* the tenths multiplier of the feature-specific weights (lines 136-141)
feature_weight(feature, value) ==
    IF feature = "comorbidity_score" THEN 13
    ELSE IF feature = "days_in_hospital" THEN (IF value > 7 THEN 12 ELSE 10)
    ELSE IF feature = "primary_diagnosis" THEN 12
    ELSE 10

\* base_contribution of one feature after the weights, in 1/ScoreScale
contribution(feature, importance, d) ==
    LET base == IF In(feature, categorical_features)
                THEN importance
                ELSE Abs(Get(d, feature, 0) * importance)
        value == Get(d, feature, 0)
    IN base * feature_weight(feature, value)

\* importance_dict after the loop over zip(feature_names, feature_importances)
RECURSIVE importance_dict(_, _, _)
importance_dict(names, importances, d) ==
    LET n == Min(Len(names), Len(importances)) IN
    IF n = 0 THEN << >>
    ELSE DictSet(importance_dict(SubSeq(names, 1, n - 1),
                                 SubSeq(importances, 1, n - 1), d),
                 names[n], contribution(names[n], importances[n], d))

\* the insertion of an ascending sort read backwards: item goes before its
\* equals
RECURSIVE InsertDesc_Reversed(_, _)
InsertDesc_Reversed(sorted, item) ==
    IF sorted = << >> THEN <<item>>
    ELSE IF sorted[1][2] > item[2]
    THEN <<sorted[1]>> \o InsertDesc_Reversed(Tail(sorted), item)
    ELSE <<item>> \o sorted

\* insert item into a list sorted by descending score, after its equals
RECURSIVE InsertDesc(_, _)
InsertDesc(sorted, item) ==
    IF sorted = << >> THEN <<item>>
    ELSE IF sorted[1][2] >= item[2]
    THEN <<sorted[1]>> \o InsertDesc(Tail(sorted), item)
    ELSE <<item>> \o sorted

\* sorted(items, key=lambda x: x[1], reverse=True): stable
RECURSIVE SortDesc(_)
SortDesc(items) ==
    IF items = << >> THEN << >>
    ELSE InsertDesc(SortDesc(SubSeq(items, 1, Len(items) - 1)),
                    items[Len(items)])

\* the cut taken before the sort instead of after it
get_contributing_factors_CutFirst(d, importances, names, n) ==
    SortDesc(Take(importance_dict(names, importances, d), n))

\* top_n is a count (>= 0)
get_contributing_factors(d, importances, names, n) ==
    Take(SortDesc(importance_dict(names, importances, d)), n)

-----------------------------------------------------------------------------
(* DataPreprocessor.generate_recommendations                                *)

\* thresholds on a factor's weighted score: importance > 0.3, > 0.1
HighImportance == (3 * ScoreScale) \div 10

MediumImportance == ScoreScale \div 10

(* DataPreprocessor._get_risk_level: reads Config.RISK_THRESHOLDS *)
\* the recomputed tier with closed upper ends (<= for <)
_get_risk_level_Closed(probability) ==
    IF probability <= Config_RISK_THRESHOLDS.low THEN "Low"
    ELSE IF probability <= Config_RISK_THRESHOLDS.medium THEN "Medium"
    ELSE "High"

_get_risk_level(probability) ==
    IF probability < Config_RISK_THRESHOLDS.low THEN "Low"
    ELSE IF probability < Config_RISK_THRESHOLDS.medium THEN "Medium"
    ELSE "High"

CatalogFactors ==
    {"comorbidity_score", "days_in_hospital", "primary_diagnosis",
     "num_procedures"}

\* the base_recommendations dict of _get_factor_recommendations
base_recommendations ==
    [f \in CatalogFactors |->
      CASE f = "comorbidity_score" ->
             [high |-> <<"Schedule comprehensive health assessment",
                         "Review and adjust all medications",
                         "Consider specialist consultations">>,
              medium |-> <<"Schedule follow-up for major conditions",
                           "Review medication compliance",
                           "Monitor symptoms regularly">>,
              low |-> <<"Maintain current treatment plans",
                        "Regular check-ups as scheduled",
                        "Report any new symptoms">>]
        [] f = "days_in_hospital" ->
             [high |-> <<"Create detailed post-discharge plan",
                         "Schedule 48-hour follow-up",
                         "Arrange home health services">>,
              medium |-> <<"Schedule follow-up within 7 days",
                           "Review discharge instructions",
                           "Monitor recovery progress">>,
              low |-> <<"Follow discharge instructions",
                        "Schedule routine follow-up",
                        "Monitor for complications">>]
        [] f = "primary_diagnosis" ->
             [high |-> <<"Urgent specialist consultation",
                         "Review treatment effectiveness",
                         "Consider additional testing">>,
              medium |-> <<"Schedule specialist follow-up",
                           "Monitor specific symptoms",
                           "Review treatment plan">>,
              low |-> <<"Continue prescribed treatment",
                        "Regular monitoring",
                        "Routine check-ups">>]
        [] f = "num_procedures" ->
             [high |-> <<"Close monitoring of procedure sites",
                         "Schedule post-procedure check-ups",
                         "Watch for complications">>,
              medium |-> <<"Follow post-procedure care",
                           "Regular wound care if needed",
                           "Report unusual symptoms">>,
              low |-> <<"Continue normal recovery",
                        "Basic wound care",
                        "Regular check-ups">>]]

GenericRecommendation ==
    <<"Monitor and maintain current health management plan">>

UrgentPrefix == "URGENT: "

\* the catalog looked up by the risk tier instead of the bucket
_get_factor_recommendations_ByTier(factor, importance, risk_level) ==
    LET key == IF risk_level = "High" THEN "high"
               ELSE IF risk_level = "Medium" THEN "medium" ELSE "low"
        recs == IF factor \in CatalogFactors
                THEN base_recommendations[factor][key]
                ELSE GenericRecommendation
    IN IF risk_level = "High"
       THEN [i \in 1..Len(recs) |-> UrgentPrefix \o recs[i]]
       ELSE recs

\* the prefix put only on catalog strings (the generic fallback left bare)
_get_factor_recommendations_CatalogOnly(factor, importance, risk_level) ==
    IF factor \in CatalogFactors
    THEN IF risk_level = "High"
         THEN [i \in 1..Len(base_recommendations[factor][importance]) |->
                 UrgentPrefix \o base_recommendations[factor][importance][i]]
         ELSE base_recommendations[factor][importance]
    ELSE GenericRecommendation

\* the prefix decided by the bucket word instead of the risk tier
_get_factor_recommendations_ByBucket(factor, importance, risk_level) ==
    LET recs == IF factor \in CatalogFactors
                THEN base_recommendations[factor][importance]
                ELSE GenericRecommendation
    IN IF importance = "high"
       THEN [i \in 1..Len(recs) |-> UrgentPrefix \o recs[i]]
       ELSE recs

(* DataPreprocessor._get_factor_recommendations; importance is the bucket    *)
(* word "high" / "medium" / "low"                                           *)
_get_factor_recommendations(factor, importance, risk_level) ==
    LET recs == IF factor \in CatalogFactors
                THEN base_recommendations[factor][importance]
                ELSE GenericRecommendation
    IN IF risk_level = "High"
       THEN [i \in 1..Len(recs) |-> UrgentPrefix \o recs[i]]
       ELSE recs

\* the general_recs dict of _add_general_recommendations
general_recs ==
    [High |-> <<"Schedule immediate follow-up", "Review all medications",
                "Set up daily monitoring", "Arrange support at home",
                "Consider home care">>,
     Medium |-> <<"Follow-up within 2 weeks", "Review medications",
                  "Keep health diary", "Know emergency contacts",
                  "Learn warning signs">>,
     Low |-> <<"Routine follow-up", "Continue medications",
               "Maintain healthy habits", "Regular exercise",
               "Balanced diet">>]

\* general advice always filed under high_priority
_add_general_recommendations_AlwaysHigh(recs, risk_level) ==
    [recs EXCEPT !["high_priority"] = @ \o general_recs[risk_level]]

(* DataPreprocessor._add_general_recommendations *)
_add_general_recommendations(recs, risk_level) ==
    LET priority_level == IF risk_level = "High" THEN "high_priority"
                          ELSE IF risk_level = "Medium" THEN "medium_priority"
                          ELSE "low_priority"
    IN [recs EXCEPT ![priority_level] = @ \o general_recs[risk_level]]

\* the bucket picked from the score alone, the tier not consulted
factor_bucket_ScoreOnly(importance, risk_level) ==
    IF importance > HighImportance THEN "high"
    ELSE IF importance > MediumImportance THEN "medium"
    ELSE "low"

\* the bucket rule with non-strict comparisons (>= for >)
factor_bucket_NonStrict(importance, risk_level) ==
    IF importance >= HighImportance \/ risk_level = "High" THEN "high"
    ELSE IF importance >= MediumImportance \/ risk_level = "Medium"
    THEN "medium"
    ELSE "low"

\* the bucket the loop body of generate_recommendations picks for one factor
factor_bucket(importance, risk_level) ==
    IF importance > HighImportance \/ risk_level = "High" THEN "high"
    ELSE IF importance > MediumImportance \/ risk_level = "Medium" THEN "medium"
    ELSE "low"

\* the recommendations dict after the loop over top_factors
RECURSIVE factor_loop(_, _, _)
factor_loop(recs, top_factors, risk_level) ==
    IF top_factors = << >> THEN recs
    ELSE LET factor == top_factors[1][1]
             bucket == factor_bucket(top_factors[1][2], risk_level)
             key == bucket \o "_priority"
         IN factor_loop(
              [recs EXCEPT ![key] =
                  @ \o _get_factor_recommendations(factor, bucket, risk_level)],
              Tail(top_factors), risk_level)

EmptyRecommendations ==
    [high_priority |-> << >>, medium_priority |-> << >>, low_priority |-> << >>]

\* seq with every repeated string dropped (first occurrence kept)
RECURSIVE Dedup(_)
Dedup(seq) ==
    IF seq = << >> THEN << >>
    ELSE LET front == Dedup(SubSeq(seq, 1, Len(seq) - 1)) IN
         IF In(seq[Len(seq)], front) THEN front
         ELSE Append(front, seq[Len(seq)])

\* the buckets deduplicated before they are returned
generate_recommendations_Dedup(factors, prediction_probability) ==
    LET risk_level == _get_risk_level(prediction_probability)
        recs == _add_general_recommendations(
                   factor_loop(EmptyRecommendations, factors, risk_level),
                   risk_level)
    IN [b \in DOMAIN recs |-> Dedup(recs[b])]

generate_recommendations(factors, prediction_probability) ==
    LET risk_level == _get_risk_level(prediction_probability) IN
    _add_general_recommendations(
        factor_loop(EmptyRecommendations, factors, risk_level), risk_level)

-----------------------------------------------------------------------------
(* Bounds and input domains                                                 *)

\* a request record differs from a well-formed one in at most this many fields
MaxDefects == 2

Features ==
    {"age", "num_procedures", "days_in_hospital", "comorbidity_score",
     "gender", "primary_diagnosis", "discharge_to"}

\* the record of the end-to-end scenario
E2ERecord ==
    [age |-> 65, gender |-> "M", primary_diagnosis |-> "D1",
     num_procedures |-> 2, days_in_hospital |-> 10, comorbidity_score |-> 4,
     discharge_to |-> "home"]

\* a short, uncomplicated stay
MildRecord ==
    [age |-> 1, gender |-> "F", primary_diagnosis |-> "D2",
     num_procedures |-> 0, days_in_hospital |-> 7, comorbidity_score |-> 0,
     discharge_to |-> "facility"]

BaseRecords == {E2ERecord, MildRecord}

\* the other values a field of a request may carry
AltValues(f) ==
    CASE f = "age" -> <<121>>
      [] f = "num_procedures" -> <<-1>>
      [] f = "days_in_hospital" -> <<-1>>
      [] f = "comorbidity_score" -> <<-1, Inf>>
      [] f = "gender" -> <<"unknown_value">>
      [] f = "primary_diagnosis" -> <<"D9">>
      [] f = "discharge_to" -> <<"moon">>

\* base with the fields of DOMAIN alt changed: alt[f] = 0 drops the key,
\* alt[f] = i > 0 stores AltValues(f)[i]
Altered(base, alt) ==
    [f \in {g \in Features : g \notin DOMAIN alt \/ alt[g] # 0} |->
        IF f \in DOMAIN alt THEN AltValues(f)[alt[f]] ELSE base[f]]

Alterations ==
    UNION {{alt \in [S -> 0..2] : \A f \in S : alt[f] <= Len(AltValues(f))} :
           S \in {T \in SUBSET Features : Cardinality(T) <= MaxDefects}}

Records == {Altered(base, alt) : base \in BaseRecords, alt \in Alterations}

\* probabilities the stub classifier may be fitted to return (in 1/ProbScale)
Probs == {0, 29, 30, 50, 59, 60, 72, 100}

\* feature_importances_ of a tree model, in training column order (sum = 1)
TreeImportances == <<140, 70, 175, 175, 35, 70, 35>>

\* coef_[0] of a linear model, in training column order
LinearCoef == <<-7, 70, 14, -140, 210, -35, 0>>

Kinds == {"tree", "linear", "both", "opaque", "faulty"}

ModelOf(kind, p, raises) ==
    [kind |-> kind,
     feature_importances_ |-> IF kind \in {"tree", "both"}
                              THEN TreeImportances ELSE << >>,
     coef_ |-> IF kind \in {"linear", "both"} THEN <<LinearCoef>> ELSE << >>,
     proba |-> p,
     raises |-> raises]

Models ==
    {ModelOf(k, p, "") : k \in Kinds, p \in Probs}
    \cup {ModelOf(k, 0, "model failure") : k \in Kinds}

\* the artifacts train_model.py saves: LabelEncoder.classes_ are sorted
TrainedEncoders ==
    [gender |-> <<"F", "M">>,
     primary_diagnosis |-> <<"D1", "D2">>,
     discharge_to |-> <<"facility", "home">>]

TrainedScaler ==
    [mean_ |-> <<60, 2, 5, 3, 0, 0, 0>>, scale_ |-> <<15, 1, 4, 2, 1, 1, 1>>]

\* the feature lists of ModelTrainer.load_data
ModelTrainer_categorical_features ==
    <<"gender", "primary_diagnosis", "discharge_to">>

ModelTrainer_numerical_features ==
    <<"age", "num_procedures", "days_in_hospital", "comorbidity_score">>

\* X.columns.tolist() of load_data, X = X_encoded[numerical + categorical]:
\* the columns the scaler and the model are fitted on
TrainedFeatureNames ==
    ModelTrainer_numerical_features \o ModelTrainer_categorical_features

-----------------------------------------------------------------------------
(* ModelManager.predict, one step per stage                                 *)

NoResult == [body |-> [status |-> "pending"], code |-> 0]

NoData == [f \in {} |-> 0]

\* the return of the validation branch (lines 32-35)
validation_failure(error_message) ==
    [body |-> [error |-> error_message, status |-> "failed"], code |-> 400]

\* an except branch that answers with a placeholder score instead of failing
exception_failure_Placeholder(e) ==
    [body |-> [status |-> "completed", readmission_probability |-> 0,
               error |-> "Prediction failed: " \o e],
     code |-> 200]

\* the return of the except branch (lines 72-76)
exception_failure(e) ==
    [body |-> [error |-> "Prediction failed: " \o e, status |-> "failed"],
     code |-> 500]

\* the response of lines 60-70
completed_response(proba, factors, recs, thresholds) ==
    [body |-> [status |-> "completed",
               readmission_probability |-> proba,
               risk_level |-> _determine_risk_level(proba, thresholds),
               confidence_score |-> _calculate_confidence(proba),
               contributing_factors |-> factors,
               recommendations |-> recs,
               model_version |-> Config_MODEL_VERSION],
     code |-> 200]

\* ModelManager.__init__ with the trained artifacts on disk
Init ==
    /\ model \in Models
    /\ scaler = TrainedScaler
    /\ label_encoders = TrainedEncoders
    /\ feature_names = TrainedFeatureNames
    /\ risk_thresholds = Config_RISK_THRESHOLDS
    /\ pc = "idle"
    /\ data = NoData
    /\ X = << >>
    /\ prediction_proba = 0
    /\ feature_importances = << >>
    /\ contributing_factors = << >>
    /\ recommendations = EmptyRecommendations
    /\ result = NoResult
    /\ top_n = TopNDefault
    /\ calls = << >>

\* a caller invokes predict(d)
Request ==
    /\ pc = "idle"
    /\ \E d \in Records : data' = d
    /\ pc' = "validate"
    /\ UNCHANGED <<artifacts, top_n, locals, result, calls>>

\* predict without the early return of lines 31-35: an invalid record goes on
Validate_NoGate ==
    /\ pc = "validate"
    /\ calls' = Append(calls, "validate_features")
    /\ result' = result
    /\ pc' = "preprocess"
    /\ UNCHANGED <<artifacts, top_n, data, locals>>

\* lines 30-35
Validate ==
    /\ pc = "validate"
    /\ calls' = Append(calls, "validate_features")
    /\ LET v == validate_features(data, label_encoders) IN
       IF ~v.is_valid
       THEN /\ result' = validation_failure(v.error_message)
            /\ pc' = "done"
       ELSE /\ result' = result
            /\ pc' = "preprocess"
    /\ UNCHANGED <<artifacts, top_n, data, locals>>

\* line 38
Preprocess ==
    /\ pc = "preprocess"
    /\ calls' = Append(calls, "preprocess_features")
    /\ LET r == preprocess_features(data, label_encoders, scaler) IN
       IF r.raised # ""
       THEN /\ result' = exception_failure(r.raised)
            /\ pc' = "done"
            /\ X' = X
       ELSE /\ X' = r.X
            /\ pc' = "predict_proba"
            /\ result' = result
    /\ UNCHANGED <<artifacts, top_n, data, prediction_proba, feature_importances,
                   contributing_factors, recommendations>>

\* line 41
PredictProba ==
    /\ pc = "predict_proba"
    /\ calls' = Append(calls, "predict_proba")
    /\ LET r == predict_proba(model, X) IN
       IF r.raised # ""
       THEN /\ result' = exception_failure(r.raised)
            /\ pc' = "done"
            /\ prediction_proba' = prediction_proba
       ELSE /\ prediction_proba' = r.proba
            /\ pc' = "importances"
            /\ result' = result
    /\ UNCHANGED <<artifacts, top_n, data, X, feature_importances,
                   contributing_factors, recommendations>>

\* _get_feature_importances without its except branch: the error of coef_[0]
\* reaches the except of predict
Importances_NoFallback ==
    /\ pc = "importances"
    /\ calls' = Append(calls, "_get_feature_importances")
    /\ IF /\ ~hasattr(model, "feature_importances_")
          /\ hasattr(model, "coef_")
          /\ Len(model.coef_) = 0
       THEN /\ result' = exception_failure("list index out of range")
            /\ pc' = "done"
            /\ feature_importances' = feature_importances
       ELSE /\ feature_importances' = _get_feature_importances(model)
            /\ pc' = "factors"
            /\ result' = result
    /\ UNCHANGED <<artifacts, top_n, data, X, prediction_proba, contributing_factors,
                   recommendations>>

\* line 44
Importances ==
    /\ pc = "importances"
    /\ calls' = Append(calls, "_get_feature_importances")
    /\ feature_importances' = _get_feature_importances(model)
    /\ pc' = "factors"
    /\ UNCHANGED <<artifacts, top_n, data, X, prediction_proba, contributing_factors,
                   recommendations, result>>

\* lines 47-49
Factors ==
    /\ pc = "factors"
    /\ calls' = Append(calls, "get_contributing_factors")
    /\ contributing_factors' =
          get_contributing_factors(data, feature_importances, feature_names,
                                   top_n)
    /\ pc' = "recommend"
    /\ UNCHANGED <<artifacts, top_n, data, X, prediction_proba, feature_importances,
                   recommendations, result>>

\* lines 52-54
Recommend ==
    /\ pc = "recommend"
    /\ calls' = Append(calls, "generate_recommendations")
    /\ recommendations' =
          generate_recommendations(contributing_factors, prediction_proba)
    /\ pc' = "respond"
    /\ UNCHANGED <<artifacts, top_n, data, X, prediction_proba, feature_importances,
                   contributing_factors, result>>

\* lines 57-70
Respond ==
    /\ pc = "respond"
    /\ result' = completed_response(prediction_proba, contributing_factors,
                                    recommendations, risk_thresholds)
    /\ pc' = "done"
    /\ UNCHANGED <<artifacts, top_n, data, locals, calls>>

\* predict has returned; the caller takes the result and the frame is gone
Return ==
    /\ pc = "done"
    /\ pc' = "idle"
    /\ data' = NoData
    /\ X' = << >>
    /\ prediction_proba' = 0
    /\ feature_importances' = << >>
    /\ contributing_factors' = << >>
    /\ recommendations' = EmptyRecommendations
    /\ result' = NoResult
    /\ calls' = << >>
    /\ UNCHANGED <<artifacts, top_n>>

Next ==
    \/ Request
    \/ Validate
    \/ Preprocess
    \/ PredictProba
    \/ Importances
    \/ Factors
    \/ Recommend
    \/ Respond
    \/ Return

Spec == Init /\ [][Next]_vars

-----------------------------------------------------------------------------
(* Properties of ModelManager.predict, checked under Spec                   *)

Done == pc = "done"

Completed == pc = "done" /\ result.code = 200

\* every key present and every value legal (Feature Record schema)
SchemaValid(d) ==
    /\ DOMAIN d = Features
    /\ d["age"] >= 0 /\ d["age"] <= 120
    /\ d["num_procedures"] >= 0
    /\ d["days_in_hospital"] >= 0
    /\ d["comorbidity_score"] >= 0
    /\ d["gender"] \in {"F", "M"}
    /\ d["primary_diagnosis"] \in {"D1", "D2"}
    /\ d["discharge_to"] \in {"facility", "home"}

InFlight == pc \notin {"idle"}

\* C1: a record that violates the schema (missing key, number out of range,
\* category outside the vocabulary) ends as the validation failure (status
\* failed, code 400, error = the validator's message), and neither
\* preprocess_features nor predict_proba is ever invoked for it.
C1_ValidatorSoleGate ==
    (InFlight /\ ~SchemaValid(data)) =>
        /\ ~In("preprocess_features", calls)
        /\ ~In("predict_proba", calls)
        /\ pc \in {"validate", "done"}
        /\ Done =>
             /\ result.code = 400
             /\ result.body.status = "failed"
             /\ result.body.error =
                    validate_features(data, label_encoders).error_message
             /\ result.body.error # ""

C1_Witness ==
    /\ Done
    /\ DOMAIN data = Features
    /\ data["age"] = 121
    /\ result.code = 400
    /\ calls = <<"validate_features">>

\* C2: the reported tier is Low for p < 0.3, Medium for 0.3 <= p < 0.6 and
\* High for p >= 0.6 (half-open intervals; 0.3 is Medium, 0.6 is High).
C2_TierHalfOpen ==
    Completed =>
        LET p == result.body.readmission_probability
            t == result.body.risk_level
        IN /\ t \in {"Low", "Medium", "High"}
           /\ (t = "Low") <=> (p < 30)
           /\ (t = "Medium") <=> (30 <= p /\ p < 60)
           /\ (t = "High") <=> (p >= 60)

C2_Witness ==
    /\ Completed
    /\ result.body.readmission_probability = 30
    /\ result.body.risk_level = "Medium"

CompletedKeys ==
    {"status", "readmission_probability", "risk_level", "confidence_score",
     "contributing_factors", "recommendations", "model_version"}

\* the scaler or the classifier raises for the request in flight
StageRaises ==
    /\ SchemaValid(data)
    /\ \/ data["comorbidity_score"] >= Inf
       \/ model.raises # ""

\* C3: every outcome of predict is a completed result (code 200, the seven
\* result fields) or an explicit failure (status failed, code 400 or 500, an
\* error message, no probability); a stage that raises gives code 500.
C3_ExplicitOutcome ==
    Done =>
        /\ \/ /\ result.code = 200
              /\ result.body.status = "completed"
              /\ DOMAIN result.body = CompletedKeys
           \/ /\ result.code \in {400, 500}
              /\ result.body.status = "failed"
              /\ DOMAIN result.body = {"error", "status"}
              /\ result.body.error # ""
        /\ StageRaises =>
              /\ result.code = 500
              /\ result.body.status = "failed"
              /\ StartsWith(result.body.error, "Prediction failed: ")
        /\ (SchemaValid(data) /\ ~StageRaises) => result.code = 200

C3_Witness ==
    /\ Done
    /\ StageRaises
    /\ model.raises # ""
    /\ result.code = 500
    /\ In("predict_proba", calls)

\* C4 (as claimed): confidence is 1.0 at probability 0 and at probability 1,
\* and 0.0 at probability 0.5.
C4_ConfidenceExtremes ==
    Completed =>
        LET p == result.body.readmission_probability
            c == result.body.confidence_score
        IN /\ (p = 0 \/ p = ProbScale) => c = ProbScale
           /\ (p = ProbScale \div 2) => c = 0

\* C5 (as claimed): the end-to-end record with a model probability of 0.72
\* gives a completed result with risk_level High and confidence_score 0.44.
C5_EndToEnd ==
    (Done /\ data = E2ERecord /\ model.proba = 72 /\ model.raises = "") =>
        /\ result.code = 200
        /\ result.body.status = "completed"
        /\ result.body.risk_level = "High"
        /\ result.body.confidence_score = 44

\* C6 (as claimed): with tier High every string of high_priority carries the
\* urgency prefix.
C6_AllHighPriorityUrgent ==
    (Completed /\ result.body.risk_level = "High") =>
        LET hp == result.body.recommendations.high_priority IN
        \A i \in 1..Len(hp) : StartsWith(hp[i], UrgentPrefix)

\* C6 (amended): with tier High every string of high_priority except
\* the five general-advice strings that end the bucket carries the urgency
\* prefix; those five are the High general advice, unprefixed.
C6_FactorStringsUrgent ==
    (Completed /\ result.body.risk_level = "High") =>
        LET hp == result.body.recommendations.high_priority
            n == Len(hp) - Len(general_recs.High)
        IN /\ n >= 0
           /\ \A i \in 1..n : StartsWith(hp[i], UrgentPrefix)
           /\ SubSeq(hp, n + 1, Len(hp)) = general_recs.High
           /\ \A i \in (n + 1)..Len(hp) : ~StartsWith(hp[i], UrgentPrefix)

C6_Witness ==
    /\ Completed
    /\ result.body.risk_level = "High"
    /\ Len(result.body.recommendations.high_priority)
          > Len(general_recs.High)
    /\ \E i \in 1..Len(result.body.contributing_factors) :
          result.body.contributing_factors[i][1] \notin CatalogFactors

-----------------------------------------------------------------------------
(* generate_recommendations on its own: SpecRec draws the contributing      *)
(* factors and the probability and applies it once                          *)

\* a contributing_factors dict holds at most this many factors
MaxFactors == 2

\* weighted scores around the two bucket thresholds
Levels ==
    {0, MediumImportance, MediumImportance + 1, HighImportance,
     HighImportance + 1}

\* probabilities at the edges of the three tiers
RecProbs == {29, 30, 59, 60}

\* insertion-ordered dicts: sequences of <<factor, score>> with distinct keys
FactorDicts ==
    UNION {{fs \in [1..n -> Features \X Levels] :
              \A i, j \in 1..n : i # j => fs[i][1] # fs[j][1]} :
           n \in 0..MaxFactors}

InitRec ==
    /\ prediction_proba \in RecProbs
    /\ contributing_factors \in FactorDicts
    /\ model = ModelOf("opaque", prediction_proba, "")
    /\ scaler = TrainedScaler
    /\ label_encoders = TrainedEncoders
    /\ feature_names = TrainedFeatureNames
    /\ risk_thresholds = Config_RISK_THRESHOLDS
    /\ pc = "recommend"
    /\ data = NoData
    /\ X = << >>
    /\ feature_importances = << >>
    /\ recommendations = EmptyRecommendations
    /\ result = NoResult
    /\ top_n = TopNDefault
    /\ calls = << >>

NextRec == Recommend

SpecRec == InitRec /\ [][NextRec]_vars

\* generate_recommendations has returned
Recommended == pc = "respond"

\* the tier of the request (Tier Mapper, default thresholds)
TierOf(p) == IF p < 30 THEN "Low" ELSE IF p < 60 THEN "Medium" ELSE "High"

\* the bucket rule as stated: > 0.3 or High; else > 0.1 or Medium; else low
RuleBucket(score, tier) ==
    IF score > HighImportance \/ tier = "High" THEN "high"
    ELSE IF ~(score > HighImportance \/ tier = "High")
            /\ (score > MediumImportance \/ tier = "Medium") THEN "medium"
    ELSE "low"

\* the strings the factors of one bucket contribute, in dict order
RECURSIVE BucketStrings(_, _, _)
BucketStrings(factors, bucket, tier) ==
    IF factors = << >> THEN << >>
    ELSE (IF RuleBucket(factors[1][2], tier) = bucket
          THEN _get_factor_recommendations(factors[1][1], bucket, tier)
          ELSE << >>)
         \o BucketStrings(Tail(factors), bucket, tier)

\* length of the general advice a bucket holds
GeneralLen(bucket, tier) ==
    IF (bucket = "high" /\ tier = "High")
       \/ (bucket = "medium" /\ tier = "Medium")
       \/ (bucket = "low" /\ tier = "Low")
    THEN Len(general_recs[tier]) ELSE 0

\* the per-factor part of a returned bucket
FactorPart(bucket) ==
    LET b == recommendations[bucket \o "_priority"]
        tier == TierOf(prediction_proba)
    IN SubSeq(b, 1, Len(b) - GeneralLen(bucket, tier))

Buckets == {"high", "medium", "low"}

\* C7: each (factor, importance) pair goes to exactly one bucket: high when
\* importance > 0.3 or the tier is High, otherwise medium when importance > 0.1
\* or the tier is Medium, otherwise low; exactly 0.3 / 0.1 do not qualify.
C7_BucketRule ==
    Recommended =>
        \A b \in Buckets :
            FactorPart(b) =
                BucketStrings(contributing_factors, b,
                              TierOf(prediction_proba))

C7_Witness ==
    /\ Recommended
    /\ TierOf(prediction_proba) = "Low"
    /\ Len(contributing_factors) = 2
    /\ contributing_factors[1][2] = HighImportance
    /\ contributing_factors[2][2] = MediumImportance
    /\ Len(recommendations.high_priority) = 0
    /\ Len(recommendations.medium_priority) > 0
    /\ Len(recommendations.low_priority) > Len(general_recs.Low)

\* C8: a per-factor string carries "URGENT: " if and only if the tier is
\* High, whatever bucket it is in (a Low/Medium request's high_priority
\* strings are not prefixed).
C8_UrgentIffHigh ==
    Recommended =>
        \A b \in Buckets :
            \A i \in 1..Len(FactorPart(b)) :
                StartsWith(FactorPart(b)[i], UrgentPrefix)
                    <=> (TierOf(prediction_proba) = "High")

C8_Witness ==
    /\ Recommended
    /\ TierOf(prediction_proba) = "Medium"
    /\ Len(contributing_factors) > 0
    /\ contributing_factors[1][2] > HighImportance
    /\ Len(recommendations.high_priority) > 0
    /\ \A i \in 1..Len(recommendations.high_priority) :
          ~StartsWith(recommendations.high_priority[i], UrgentPrefix)

\* every string of the three general-advice lists
GeneralStrings ==
    {general_recs[t][i] : t \in {"High", "Medium", "Low"}, i \in 1..5}

\* C9: the five general-advice strings of the tier end the bucket matching
\* the tier, unprefixed, for every request; the other two buckets hold no
\* general advice.
C9_GeneralAdvice ==
    Recommended =>
        LET tier == TierOf(prediction_proba)
            own == IF tier = "High" THEN "high"
                   ELSE IF tier = "Medium" THEN "medium" ELSE "low"
            b == recommendations[own \o "_priority"]
        IN /\ Len(general_recs[tier]) = 5
           /\ Len(b) >= 5
           /\ SubSeq(b, Len(b) - 4, Len(b)) = general_recs[tier]
           /\ \A i \in (Len(b) - 4)..Len(b) : ~StartsWith(b[i], UrgentPrefix)
           /\ \A i \in 1..(Len(b) - 5) : b[i] \notin GeneralStrings
           /\ \A o \in Buckets \ {own} :
                \A i \in 1..Len(recommendations[o \o "_priority"]) :
                    recommendations[o \o "_priority"][i] \notin GeneralStrings

C9_Witness ==
    /\ Recommended
    /\ TierOf(prediction_proba) = "Medium"
    /\ Len(recommendations.high_priority) > 0
    /\ Len(recommendations.medium_priority) > 5
    /\ SubSeq(recommendations.medium_priority,
              Len(recommendations.medium_priority) - 4,
              Len(recommendations.medium_priority)) = general_recs.Medium

-----------------------------------------------------------------------------
(* get_contributing_factors on its own: SpecExplain draws the record and    *)
(* the importances array and applies it once                                *)

\* records around the long-stay boundary of 7 days
ExplainBases ==
    {[age |-> a, gender |-> "M", primary_diagnosis |-> "D1",
      num_procedures |-> n, days_in_hospital |-> d, comorbidity_score |-> c,
      discharge_to |-> "home"] :
        a \in {0, 65}, n \in {0, 2}, d \in {0, 6, 7, 8, 10}, c \in {0, 4}}

\* keys a record handed to get_contributing_factors may lack
ExplainDrops == {{}, {"days_in_hospital"}, {"age"}, {"primary_diagnosis"}}

ExplainRecords ==
    {[f \in Features \ drop |-> r[f]] : r \in ExplainBases, drop \in ExplainDrops}

\* importances arrays (1/ImpScale), negative entries included
ImportanceVectors ==
    {<<a, n, d, c, g, p, t>> :
        a \in {-7, 175}, n \in {-70, 140}, d \in {-35, 70}, c \in {-14, 175},
        g \in {-70, 0, 210}, p \in {-35, 0, 175}, t \in {-7, 0, 350}}

InitExplain ==
    /\ data \in ExplainRecords
    /\ feature_importances \in ImportanceVectors
    /\ model = ModelOf("tree", 0, "")
    /\ scaler = TrainedScaler
    /\ label_encoders = TrainedEncoders
    /\ feature_names = TrainedFeatureNames
    /\ risk_thresholds = Config_RISK_THRESHOLDS
    /\ pc = "factors"
    /\ X = << >>
    /\ prediction_proba = 0
    /\ contributing_factors = << >>
    /\ recommendations = EmptyRecommendations
    /\ result = NoResult
    /\ top_n = TopNDefault
    /\ calls = << >>

NextExplain == Factors

SpecExplain == InitExplain /\ [][NextExplain]_vars

\* get_contributing_factors has returned
Explained == pc = "recommend"

\* the importance zip pairs with a feature
WeightOf(f) == feature_importances[IndexOf(f, feature_names)]

\* the raw value of a feature in the record (data.get default 0)
RawOf(f) == IF f \in DOMAIN data THEN data[f] ELSE 0

\* base contribution as stated: raw importance (categorical),
\* |raw_value * importance| (numerical)
ClaimedBase(f) ==
    IF f \in {"gender", "primary_diagnosis", "discharge_to"}
    THEN WeightOf(f)
    ELSE Abs(RawOf(f) * WeightOf(f))

\* domain multiplier as stated, in tenths
ClaimedMultiplier(f) ==
    IF f = "comorbidity_score" THEN 13
    ELSE IF f = "primary_diagnosis" THEN 12
    ELSE IF f = "days_in_hospital" /\ RawOf(f) > 7 THEN 12
    ELSE 10

\* C10: the weighted score of every returned feature is its base
\* contribution (raw importance if categorical, |raw_value * importance| if
\* numerical) times its multiplier (1.3 comorbidity_score, 1.2
\* primary_diagnosis, 1.2 days_in_hospital only when > 7, else 1.0).
C10_WeightedScore ==
    Explained =>
        /\ Len(contributing_factors) > 0
        /\ \A i \in 1..Len(contributing_factors) :
              LET f == contributing_factors[i][1] IN
              /\ f \in Features
              /\ contributing_factors[i][2]
                    = ClaimedBase(f) * ClaimedMultiplier(f)

C10_Witness ==
    /\ Explained
    /\ "days_in_hospital" \in DOMAIN data
    /\ data["days_in_hospital"] = 7
    /\ \E i \in 1..Len(contributing_factors) :
          /\ contributing_factors[i][1] = "days_in_hospital"
          /\ contributing_factors[i][2] = 7 * 70 * 10
    /\ \E i \in 1..Len(contributing_factors) :
          /\ contributing_factors[i][1] = "primary_diagnosis"
          /\ contributing_factors[i][2] = 175 * 12
    /\ \E i \in 1..Len(contributing_factors) :
          /\ contributing_factors[i][1] = "comorbidity_score"
          /\ contributing_factors[i][2] = 4 * 175 * 13

-----------------------------------------------------------------------------
(* get_contributing_factors with its top_n argument and the length of the   *)
(* importances array drawn as well: SpecTopN                                *)

\* the largest top_n a caller passes
MaxTopN == 8

\* importances arrays of every length up to the feature count, ties included
TopNImportances ==
    UNION {[1..n -> {0, 70, 175}] : n \in 0..Len(TrainedFeatureNames)}

InitTopN ==
    /\ data \in BaseRecords
    /\ feature_importances \in TopNImportances
    /\ top_n \in 0..MaxTopN
    /\ model = ModelOf("tree", 0, "")
    /\ scaler = TrainedScaler
    /\ label_encoders = TrainedEncoders
    /\ feature_names = TrainedFeatureNames
    /\ risk_thresholds = Config_RISK_THRESHOLDS
    /\ pc = "factors"
    /\ X = << >>
    /\ prediction_proba = 0
    /\ contributing_factors = << >>
    /\ recommendations = EmptyRecommendations
    /\ result = NoResult
    /\ calls = << >>

NextTopN == Factors

SpecTopN == InitTopN /\ [][NextTopN]_vars

\* the number of features the loop visits
FeatureCount == Min(Len(feature_names), Len(feature_importances))

\* the weighted score of a feature as C10 states it
ClaimedScore(f) == ClaimedBase(f) * ClaimedMultiplier(f)

\* the keys of the returned dict
ReturnedFeatures ==
    {contributing_factors[i][1] : i \in 1..Len(contributing_factors)}

\* C11: get_contributing_factors returns exactly min(top_n, number of
\* features) entries, in descending order of weighted score, and no omitted
\* feature has a weighted score greater than a returned one.
C11_TopNDescending ==
    Explained =>
        /\ Len(contributing_factors) = Min(top_n, FeatureCount)
        /\ Cardinality(ReturnedFeatures) = Len(contributing_factors)
        /\ \A i, j \in 1..Len(contributing_factors) :
              i < j => contributing_factors[i][2] >= contributing_factors[j][2]
        /\ \A k \in 1..FeatureCount :
              feature_names[k] \notin ReturnedFeatures =>
                 \A i \in 1..Len(contributing_factors) :
                    ClaimedScore(feature_names[k]) <= contributing_factors[i][2]

C11_Witness ==
    /\ Explained
    /\ top_n = TopNDefault
    /\ FeatureCount = 7
    /\ Len(contributing_factors) = 5
    /\ contributing_factors[1][2] > contributing_factors[5][2]
    /\ contributing_factors[5][2] > 0

-----------------------------------------------------------------------------
(* validate_features on its own: SpecValidate draws the record and applies  *)
(* the validation stage once                                                *)

\* full records over the legal and illegal values of every field
ValFull ==
    [age : {-1, 0, 65, 120, 121},
     num_procedures : {-1, 0},
     days_in_hospital : {-1, 0},
     comorbidity_score : {-1, 0},
     gender : {"M", "unknown_value"},
     primary_diagnosis : {"D1", "D9"},
     discharge_to : {"home", "moon"}]

\* the same records with any set of keys left out
ValRecords == {[f \in S |-> r[f]] : S \in SUBSET Features, r \in ValFull}

InitValidate ==
    /\ data \in ValRecords
    /\ model = ModelOf("tree", 0, "")
    /\ scaler = TrainedScaler
    /\ label_encoders = TrainedEncoders
    /\ feature_names = TrainedFeatureNames
    /\ risk_thresholds = Config_RISK_THRESHOLDS
    /\ pc = "validate"
    /\ X = << >>
    /\ prediction_proba = 0
    /\ feature_importances = << >>
    /\ contributing_factors = << >>
    /\ recommendations = EmptyRecommendations
    /\ result = NoResult
    /\ top_n = TopNDefault
    /\ calls = << >>

NextValidate == Validate

SpecValidate == InitValidate /\ [][NextValidate]_vars

\* sub in s (substring)
Contains(s, sub) ==
    \E i \in 1..(Len(s) - Len(sub) + 1) : SubSeq(s, i, i + Len(sub) - 1) = sub

\* validate_features has returned
Validated == pc \in {"done", "preprocess"} /\ calls = <<"validate_features">>

\* it returned (False, message)
Rejected == pc = "done" /\ result.code = 400 /\ result.body.status = "failed"

MissingKeys == Features \ DOMAIN data

AllPresent == DOMAIN data = Features

\* C12: a record lacking any of the seven required keys is rejected, and the
\* message names every absent key (a record missing only discharge_to is a
\* missing-feature failure).
C12_MissingRejected ==
    (Validated /\ MissingKeys # {}) =>
        /\ Rejected
        /\ StartsWith(result.body.error, "Missing required features: ")
        /\ \A f \in MissingKeys : Contains(result.body.error, f)
        /\ \A f \in DOMAIN data : ~Contains(result.body.error, f)

C12_Witness ==
    /\ Validated
    /\ MissingKeys = {"discharge_to"}
    /\ Rejected
    /\ result.body.error = "Missing required features: discharge_to"

\* a numeric rule is broken (keys present)
NumericBroken ==
    \/ data["age"] < 0
    \/ data["age"] > 120
    \/ data["num_procedures"] < 0
    \/ data["days_in_hospital"] < 0
    \/ data["comorbidity_score"] < 0

CategoriesKnown ==
    /\ data["gender"] \in {"F", "M"}
    /\ data["primary_diagnosis"] \in {"D1", "D2"}
    /\ data["discharge_to"] \in {"facility", "home"}

\* C13: with all keys present, a record is rejected for its numbers exactly
\* when age is outside [0, 120] or num_procedures, days_in_hospital or
\* comorbidity_score is below 0 (0 and 120 are accepted).
C13_NumericRules ==
    (Validated /\ AllPresent) =>
        /\ NumericBroken => Rejected
        /\ CategoriesKnown => (Rejected <=> NumericBroken)
        /\ (data["age"] < 0 \/ data["age"] > 120) <=>
              (Rejected /\ Contains(result.body.error,
                                    "Age must be between 0 and 120"))
        /\ (data["num_procedures"] < 0) <=>
              (Rejected /\ Contains(result.body.error,
                                    "Number of procedures cannot be negative"))
        /\ (data["days_in_hospital"] < 0) <=>
              (Rejected /\ Contains(result.body.error,
                                    "Days in hospital cannot be negative"))
        /\ (data["comorbidity_score"] < 0) <=>
              (Rejected /\ Contains(result.body.error,
                                    "Comorbidity score cannot be negative"))

C13_Witness ==
    /\ Validated
    /\ AllPresent
    /\ CategoriesKnown
    /\ data["age"] = 120
    /\ data["num_procedures"] = 0
    /\ data["days_in_hospital"] = 0
    /\ data["comorbidity_score"] = 0
    /\ ~Rejected
    /\ pc = "preprocess"

\* C14: an unknown gender, primary_diagnosis or discharge_to is rejected; the
\* gender and discharge_to messages enumerate the vocabulary, the
\* primary_diagnosis message says only that the code is invalid.
C14_UnknownCategory ==
    (Validated /\ AllPresent) =>
        /\ (data["gender"] \notin {"F", "M"}) <=>
              (Rejected /\ Contains(result.body.error,
                                    "Gender must be one of: F, M"))
        /\ (data["discharge_to"] \notin {"facility", "home"}) <=>
              (Rejected
               /\ Contains(result.body.error,
                    "Discharge destination must be one of: facility, home"))
        /\ (data["primary_diagnosis"] \notin {"D1", "D2"}) <=>
              (Rejected /\ Contains(result.body.error,
                                    "Invalid primary diagnosis code"))
        /\ Rejected =>
              \A i \in 1..Len(label_encoders["primary_diagnosis"]) :
                 ~Contains(result.body.error,
                           label_encoders["primary_diagnosis"][i])

C14_Witness ==
    /\ Validated
    /\ AllPresent
    /\ data["gender"] = "unknown_value"
    /\ data["primary_diagnosis"] = "D9"
    /\ Rejected
    /\ result.body.error =
          "Gender must be one of: F, M; Invalid primary diagnosis code"

\* the message entry of every rule the record violates
ViolatedEntries ==
    MissingKeys
    \cup (IF "age" \in DOMAIN data /\ (data["age"] < 0 \/ data["age"] > 120)
          THEN {"Age must be between 0 and 120"} ELSE {})
    \cup (IF "num_procedures" \in DOMAIN data /\ data["num_procedures"] < 0
          THEN {"Number of procedures cannot be negative"} ELSE {})
    \cup (IF "days_in_hospital" \in DOMAIN data /\ data["days_in_hospital"] < 0
          THEN {"Days in hospital cannot be negative"} ELSE {})
    \cup (IF "comorbidity_score" \in DOMAIN data
             /\ data["comorbidity_score"] < 0
          THEN {"Comorbidity score cannot be negative"} ELSE {})
    \cup (IF "gender" \in DOMAIN data /\ data["gender"] \notin {"F", "M"}
          THEN {"Gender must be one of: F, M"} ELSE {})
    \cup (IF "primary_diagnosis" \in DOMAIN data
             /\ data["primary_diagnosis"] \notin {"D1", "D2"}
          THEN {"Invalid primary diagnosis code"} ELSE {})
    \cup (IF "discharge_to" \in DOMAIN data
             /\ data["discharge_to"] \notin {"facility", "home"}
          THEN {"Discharge destination must be one of: facility, home"}
          ELSE {})

\* C15 (as claimed): for every record, each violated rule (missing key,
\* out-of-range number, unknown category) has its entry in the one message.
C15_AllViolationsReported ==
    (Validated /\ ViolatedEntries # {}) =>
        /\ Rejected
        /\ \A e \in ViolatedEntries : Contains(result.body.error, e)

\* C15 (amended): when a key is absent the message names every absent key and
\* reports no value violation; when all keys are present every violated value
\* rule has its entry in the one message, entries joined by "; ".
C15_ReportedJointly ==
    (Validated /\ ViolatedEntries # {}) =>
        /\ Rejected
        /\ MissingKeys # {} =>
              \A e \in ViolatedEntries :
                 Contains(result.body.error, e) <=> (e \in MissingKeys)
        /\ MissingKeys = {} =>
              /\ \A e \in ViolatedEntries : Contains(result.body.error, e)
              /\ Cardinality(ViolatedEntries) > 1 =>
                    Contains(result.body.error, "; ")

C15_Witness ==
    /\ Validated
    /\ AllPresent
    /\ Cardinality(ViolatedEntries) = 7
    /\ Rejected

-----------------------------------------------------------------------------
(* preprocess_features on its own, the validator not having run: SpecPre    *)
(* draws the record and calls it once                                       *)

PreRecords == ValRecords \cup Records

InitPre ==
    /\ data \in PreRecords
    /\ model = ModelOf("tree", 0, "")
    /\ scaler = TrainedScaler
    /\ label_encoders = TrainedEncoders
    /\ feature_names = TrainedFeatureNames
    /\ risk_thresholds = Config_RISK_THRESHOLDS
    /\ pc = "preprocess"
    /\ X = << >>
    /\ prediction_proba = 0
    /\ feature_importances = << >>
    /\ contributing_factors = << >>
    /\ recommendations = EmptyRecommendations
    /\ result = NoResult
    /\ top_n = TopNDefault
    /\ calls = << >>

\* a direct call: the exception reaches the caller, or X_scaled is returned
CallPreprocess ==
    /\ pc = "preprocess"
    /\ calls = << >>
    /\ calls' = <<"preprocess_features">>
    /\ LET r == preprocess_features(data, label_encoders, scaler) IN
       IF r.raised # ""
       THEN /\ result' = [body |-> [status |-> "raised", error |-> r.raised],
                          code |-> 0]
            /\ X' = X
       ELSE /\ result' = [body |-> [status |-> "returned"], code |-> 0]
            /\ X' = r.X
    /\ pc' = "done"
    /\ UNCHANGED <<artifacts, top_n, data, prediction_proba, feature_importances,
                   contributing_factors, recommendations>>

NextPre == CallPreprocess

SpecPre == InitPre /\ [][NextPre]_vars

Preprocessed == pc = "done" /\ calls = <<"preprocess_features">>

\* the value the encoder is given for a categorical feature
GivenCategory(f) == IF f \in DOMAIN data THEN data[f] ELSE ""

\* categorical features whose value is outside the fitted vocabulary
Offending ==
    {f \in {"gender", "primary_diagnosis", "discharge_to"} :
        \A i \in 1..Len(label_encoders[f]) :
           label_encoders[f][i] # GivenCategory(f)}

\* C16: preprocess_features called alone (no validation before it) raises for
\* every record with a gender, primary_diagnosis or discharge_to outside the
\* fitted vocabulary; the error names an offending feature and its value, and
\* no vector is produced.
C16_EncoderRejects ==
    (Preprocessed /\ Offending # {}) =>
        /\ result.body.status = "raised"
        /\ X = << >>
        /\ \E f \in Offending :
              StartsWith(result.body.error,
                         "Invalid value for " \o f \o ": " \o GivenCategory(f)
                         \o ". Valid values are: ")

C16_Witness ==
    /\ Preprocessed
    /\ AllPresent
    /\ Offending = {"discharge_to"}
    /\ result.body.status = "raised"
    /\ result.body.error =
          "Invalid value for discharge_to: moon. Valid values are: ['facility' 'home']"
    /\ X = << >>

\* the column order the claim states
ClaimedColumns ==
    <<"age", "num_procedures", "days_in_hospital", "comorbidity_score",
      "gender", "primary_diagnosis", "discharge_to">>

\* the number a column holds before scaling: the field's value (0 when
\* absent), or the 0-based rank of the category in the fitted vocabulary
ColumnValue(f) ==
    IF f \in {"gender", "primary_diagnosis", "discharge_to"}
    THEN CHOOSE k \in 0..(Len(label_encoders[f]) - 1) :
            label_encoders[f][k + 1] = GivenCategory(f)
    ELSE IF f \in DOMAIN data THEN data[f] ELSE 0

\* C17: the vector preprocess_features builds has 7 columns in the order age,
\* num_procedures, days_in_hospital, comorbidity_score, gender,
\* primary_diagnosis, discharge_to, which is the column order of training and
\* the saved feature-name list.
C17_ColumnOrder ==
    /\ ClaimedColumns = TrainedFeatureNames
    /\ ClaimedColumns = feature_names
    /\ (Preprocessed /\ result.body.status = "returned") =>
          /\ Len(X) = 7
          /\ \A i \in 1..Len(X) :
                /\ X[i][1] + scaler.mean_[i] = ColumnValue(ClaimedColumns[i])
                /\ X[i][2] = scaler.scale_[i]

C17_Witness ==
    /\ Preprocessed
    /\ AllPresent
    /\ result.body.status = "returned"
    /\ data["age"] = 65
    /\ data["gender"] = "M"
    /\ Len(X) = 7
    /\ X[1] = <<5, 15>>
    /\ X[5] = <<1, 1>>

-----------------------------------------------------------------------------
(* Claims about the importance source and the risk tier, under Spec         *)

\* _get_feature_importances has just returned
ImportancesRead ==
    pc = "factors" /\ calls[Len(calls)] = "_get_feature_importances"

ExposesImportances == model.kind \in {"tree", "both"}

ExposesCoef == model.kind \in {"linear", "both"}

\* C18: _get_feature_importances returns the model's feature_importances_
\* when the model exposes them, otherwise the absolute values of the first
\* row of coef_ when the model exposes that, otherwise the uniform vector of
\* length 7 with every entry 1/7.
C18_ImportanceSource ==
    ImportancesRead =>
        IF ExposesImportances
        THEN feature_importances = model.feature_importances_
        ELSE IF ExposesCoef
        THEN /\ Len(feature_importances) = Len(model.coef_[1])
             /\ \A i \in 1..Len(feature_importances) :
                   /\ feature_importances[i] >= 0
                   /\ feature_importances[i] \in
                         {model.coef_[1][i], 0 - model.coef_[1][i]}
        ELSE /\ Len(feature_importances) = 7
             /\ \A i \in 1..7 : 7 * feature_importances[i] = ImpScale

C18_Witness ==
    /\ ImportancesRead
    /\ ~ExposesImportances
    /\ ExposesCoef
    /\ model.coef_[1][4] < 0
    /\ feature_importances[4] = 0 - model.coef_[1][4]

\* the bucket generate_recommendations files the general advice of a tier in
OwnBucket(tier) ==
    IF tier = "High" THEN "high_priority"
    ELSE IF tier = "Medium" THEN "medium_priority"
    ELSE "low_priority"

\* some recommendation of the result carries the urgency prefix
SomeUrgent ==
    \E b \in {"high_priority", "medium_priority", "low_priority"} :
       \E i \in 1..Len(result.body.recommendations[b]) :
          StartsWith(result.body.recommendations[b][i], UrgentPrefix)

\* the bucket ends with the general advice of the tier
EndsWithGeneral(b, tier) ==
    /\ Len(b) >= Len(general_recs[tier])
    /\ SubSeq(b, Len(b) - Len(general_recs[tier]) + 1, Len(b))
          = general_recs[tier]

\* C19: for every probability the tier generate_recommendations recomputes
\* (_get_risk_level) equals the tier predict reports (_determine_risk_level),
\* so the bucket holding the general advice and the urgency prefixing agree
\* with the reported risk_level.
C19_TiersAgree ==
    /\ \A p \in 0..ProbScale :
          _get_risk_level(p) = _determine_risk_level(p, risk_thresholds)
    /\ Completed =>
          /\ EndsWithGeneral(
                result.body.recommendations[OwnBucket(result.body.risk_level)],
                result.body.risk_level)
          /\ \A t \in {"High", "Medium", "Low"} :
                t # result.body.risk_level =>
                   ~EndsWithGeneral(result.body.recommendations[OwnBucket(t)], t)
          /\ SomeUrgent => result.body.risk_level = "High"
          /\ (result.body.risk_level = "High"
              /\ Len(result.body.recommendations["high_priority"])
                    > Len(general_recs["High"]))
                => SomeUrgent

C19_Witness ==
    /\ Completed
    /\ result.body.readmission_probability = MediumThreshold
    /\ result.body.risk_level = "High"
    /\ EndsWithGeneral(result.body.recommendations["high_priority"], "High")
    /\ SomeUrgent

-----------------------------------------------------------------------------
(* The tier mappers on their own: SpecTier calls them on arbitrary          *)
(* probabilities, keeping the previous call next to the latest one          *)

InitTier ==
    /\ data = NoData
    /\ model = ModelOf("tree", 0, "")
    /\ scaler = TrainedScaler
    /\ label_encoders = TrainedEncoders
    /\ feature_names = TrainedFeatureNames
    /\ risk_thresholds = Config_RISK_THRESHOLDS
    /\ pc = "tier"
    /\ X = << >>
    /\ prediction_proba = 0
    /\ feature_importances = << >>
    /\ contributing_factors = << >>
    /\ recommendations = EmptyRecommendations
    /\ result = NoResult
    /\ top_n = TopNDefault
    /\ calls = << >>

\* self._determine_risk_level(probability)
DetermineRiskLevel ==
    /\ pc = "tier"
    /\ \E p \in 0..ProbScale :
          /\ prediction_proba' = p
          /\ result' = [body |-> [status |-> "tier",
                                  readmission_probability |-> p,
                                  risk_level |->
                                     _determine_risk_level(p, risk_thresholds)],
                        code |-> 0]
    /\ calls' = <<result.body>>
    /\ UNCHANGED <<artifacts, top_n, data, pc, X, feature_importances,
                   contributing_factors, recommendations>>

\* self._get_risk_level(probability)
GetRiskLevel ==
    /\ pc = "tier"
    /\ \E p \in 0..ProbScale :
          /\ prediction_proba' = p
          /\ result' = [body |-> [status |-> "tier",
                                  readmission_probability |-> p,
                                  risk_level |-> _get_risk_level(p)],
                        code |-> 0]
    /\ calls' = <<result.body>>
    /\ UNCHANGED <<artifacts, top_n, data, pc, X, feature_importances,
                   contributing_factors, recommendations>>

NextTier == DetermineRiskLevel \/ GetRiskLevel

SpecTier == InitTier /\ [][NextTier]_vars

\* two calls have been made: calls[1] is the earlier one, result the later
TwoTiers ==
    /\ result.body.status = "tier"
    /\ calls # << >>
    /\ calls[1].status = "tier"

Rank(tier) ==
    CASE tier = "Low" -> 0
      [] tier = "Medium" -> 1
      [] tier = "High" -> 2

\* C20: the tier mapper is monotonically non-decreasing (p <= q gives
\* tier(p) <= tier(q) in the order Low < Medium < High) and the tier depends
\* only on the probability and the two thresholds (equal probabilities give
\* equal tiers, whatever was computed before).
C20_TierMonotone ==
    TwoTiers =>
        /\ calls[1].readmission_probability <= result.body.readmission_probability
              => Rank(calls[1].risk_level) <= Rank(result.body.risk_level)
        /\ calls[1].readmission_probability = result.body.readmission_probability
              => calls[1].risk_level = result.body.risk_level

C20_Witness ==
    /\ TwoTiers
    /\ calls[1].readmission_probability = LowThreshold - 1
    /\ calls[1].risk_level = "Low"
    /\ result.body.readmission_probability = LowThreshold
    /\ result.body.risk_level = "Medium"

-----------------------------------------------------------------------------
(* _calculate_confidence on its own: SpecConfidence calls it on arbitrary   *)
(* probabilities, keeping the previous call next to the latest one          *)

InitConfidence ==
    /\ data = NoData
    /\ model = ModelOf("tree", 0, "")
    /\ scaler = TrainedScaler
    /\ label_encoders = TrainedEncoders
    /\ feature_names = TrainedFeatureNames
    /\ risk_thresholds = Config_RISK_THRESHOLDS
    /\ pc = "confidence"
    /\ X = << >>
    /\ prediction_proba = 0
    /\ feature_importances = << >>
    /\ contributing_factors = << >>
    /\ recommendations = EmptyRecommendations
    /\ result = NoResult
    /\ top_n = TopNDefault
    /\ calls = << >>

\* self._calculate_confidence(probability)
CalculateConfidence ==
    /\ pc = "confidence"
    /\ \E p \in 0..ProbScale :
          /\ prediction_proba' = p
          /\ result' = [body |-> [status |-> "confidence",
                                  readmission_probability |-> p,
                                  confidence_score |-> _calculate_confidence(p)],
                        code |-> 0]
    /\ calls' = <<result.body>>
    /\ UNCHANGED <<artifacts, top_n, data, pc, X, feature_importances,
                   contributing_factors, recommendations>>

NextConfidence == CalculateConfidence

SpecConfidence == InitConfidence /\ [][NextConfidence]_vars

\* two calls have been made: calls[1] is the earlier one, result the later
TwoConfidences ==
    /\ result.body.status = "confidence"
    /\ calls # << >>
    /\ calls[1].status = "confidence"

\* the two probabilities mirror each other about 0.5 (q = 1 - p)
Mirrored ==
    calls[1].readmission_probability + result.body.readmission_probability
       = ProbScale

\* C21: the confidence score is symmetric about probability 0.5: for every
\* probability p in [0, 1], confidence(p) = confidence(1 - p).
C21_ConfidenceSymmetric ==
    (TwoConfidences /\ Mirrored) =>
        calls[1].confidence_score = result.body.confidence_score

C21_Witness ==
    /\ TwoConfidences
    /\ Mirrored
    /\ calls[1].readmission_probability = LowThreshold
    /\ result.body.readmission_probability = ProbScale - LowThreshold
    /\ calls[1].confidence_score = result.body.confidence_score
    /\ result.body.confidence_score = 2 * LowThreshold

-----------------------------------------------------------------------------
(* preprocess_features called twice on the same record: SpecPreTwice logs   *)
(* for every call the record as passed and what the call gave back          *)

InitPreTwice ==
    /\ data \in PreRecords
    /\ model = ModelOf("tree", 0, "")
    /\ scaler = TrainedScaler
    /\ label_encoders = TrainedEncoders
    /\ feature_names = TrainedFeatureNames
    /\ risk_thresholds = Config_RISK_THRESHOLDS
    /\ pc = "preprocess"
    /\ X = << >>
    /\ prediction_proba = 0
    /\ feature_importances = << >>
    /\ contributing_factors = << >>
    /\ recommendations = EmptyRecommendations
    /\ result = NoResult
    /\ top_n = TopNDefault
    /\ calls = << >>

\* the call writing the centred age back into the record
CallPreprocessAgain_InPlace ==
    /\ pc = "preprocess"
    /\ Len(calls) < 2
    /\ LET r == preprocess_features(data, label_encoders, scaler) IN
       /\ calls' = Append(calls, [data |-> data, raised |-> r.raised, X |-> r.X])
       /\ X' = r.X
       /\ result' = [body |-> [status |-> IF r.raised # "" THEN "raised"
                                          ELSE "returned"],
                     code |-> 0]
    /\ data' = IF "age" \in DOMAIN data
               THEN [data EXCEPT !["age"] = data["age"] - scaler.mean_[1]]
               ELSE data
    /\ UNCHANGED <<artifacts, top_n, pc, prediction_proba,
                   feature_importances, contributing_factors, recommendations>>

\* one of the two direct calls: the record is read with data.get, the
\* encoders and the scaler are asked to transform, nothing is assigned
CallPreprocessAgain ==
    /\ pc = "preprocess"
    /\ Len(calls) < 2
    /\ LET r == preprocess_features(data, label_encoders, scaler) IN
       /\ calls' = Append(calls, [data |-> data, raised |-> r.raised, X |-> r.X])
       /\ X' = r.X
       /\ result' = [body |-> [status |-> IF r.raised # "" THEN "raised"
                                          ELSE "returned"],
                     code |-> 0]
    /\ UNCHANGED <<artifacts, top_n, data, pc, prediction_proba,
                   feature_importances, contributing_factors, recommendations>>

NextPreTwice == CallPreprocessAgain

SpecPreTwice == InitPreTwice /\ [][NextPreTwice]_vars

-----------------------------------------------------------------------------
(* Further claims about generate_recommendations, under SpecRec             *)

\* number of positions of seq holding x
Count(seq, x) == Cardinality({i \in 1..Len(seq) : seq[i] = x})

\* the generic string as the tier makes it appear
GenericAs(tier) ==
    IF tier = "High" THEN UrgentPrefix \o GenericRecommendation[1]
    ELSE GenericRecommendation[1]

\* the factors outside the catalog that the bucket rule files under bucket
UncataloguedIn(bucket) ==
    {i \in 1..Len(contributing_factors) :
        /\ contributing_factors[i][1] \notin CatalogFactors
        /\ RuleBucket(contributing_factors[i][2], TierOf(prediction_proba))
              = bucket}

\* C23: generate_recommendations performs no deduplication: a string
\* contributed by more than one factor appears once per contributing factor
\* (two factors absent from the catalog placed in the same bucket each add
\* the same generic string).
C23_NoDeduplication ==
    Recommended =>
        \A b \in Buckets :
            Count(recommendations[b \o "_priority"],
                  GenericAs(TierOf(prediction_proba)))
               = Cardinality(UncataloguedIn(b))

C23_Witness ==
    /\ Recommended
    /\ TierOf(prediction_proba) = "Medium"
    /\ Cardinality(UncataloguedIn("medium")) = 2
    /\ recommendations.medium_priority[1] = GenericRecommendation[1]
    /\ recommendations.medium_priority[2] = GenericRecommendation[1]

-----------------------------------------------------------------------------
(* ModelManager.__init__ followed by predict: SpecConstruct loads the four  *)
(* artifacts from disk one after the other; a file may be missing or        *)
(* unreadable, and a file that loads may come from another training run     *)

Config_MODEL_PATH == "app/ml_models/readmission_model.pkl"

\* str(e) of the error joblib.load raises on an unreadable file
UnpicklingError == "invalid load key"

\* attributes of an instance under construction that are not assigned yet
UnsetModel == ModelOf("unset", 0, "")

UnsetScaler == [mean_ |-> << >>, scale_ |-> << >>]

UnsetEncoders ==
    [gender |-> << >>, primary_diagnosis |-> << >>, discharge_to |-> << >>]

UnsetThresholds == [low |-> 0, medium |-> 0]

\* scaler.pkl files: the trained one, or one fitted on six columns
SavedScalers ==
    {TrainedScaler,
     [mean_ |-> SubSeq(TrainedScaler.mean_, 1, 6),
      scale_ |-> SubSeq(TrainedScaler.scale_, 1, 6)]}

\* feature_names.pkl files: the trained list, a list in another column
\* order, or a list of six columns
SavedFeatureNames ==
    {TrainedFeatureNames, Config_REQUIRED_FEATURES,
     SubSeq(TrainedFeatureNames, 1, 6)}

InitConstruct ==
    /\ model = UnsetModel
    /\ scaler = UnsetScaler
    /\ label_encoders = UnsetEncoders
    /\ feature_names = << >>
    /\ risk_thresholds = UnsetThresholds
    /\ pc = "load_model"
    /\ data = NoData
    /\ X = << >>
    /\ prediction_proba = 0
    /\ feature_importances = << >>
    /\ contributing_factors = << >>
    /\ recommendations = EmptyRecommendations
    /\ result = NoResult
    /\ top_n = TopNDefault
    /\ calls = << >>

\* the exception leaves __init__: the constructor call raises
construction_failure(e) == [body |-> [status |-> "raised", error |-> e], code |-> 0]

\* self.model = self._load_model()
LoadModel ==
    /\ pc = "load_model"
    /\ \/ \E m \in Models :
             /\ model' = m
             /\ pc' = "load_scaler"
             /\ result' = result
       \/ \E e \in {"Model file not found at " \o Config_MODEL_PATH,
                    "Error loading model: " \o UnpicklingError} :
             /\ model' = model
             /\ pc' = "raised"
             /\ result' = construction_failure(e)
    /\ UNCHANGED <<scaler, label_encoders, feature_names, risk_thresholds,
                   top_n, data, locals, calls>>

\* a loader that answers None for a file it cannot load
LoadScaler_Swallow ==
    /\ pc = "load_scaler"
    /\ \/ \E sc \in SavedScalers : scaler' = sc
       \/ scaler' = scaler
    /\ pc' = "load_encoders"
    /\ UNCHANGED <<model, label_encoders, feature_names, risk_thresholds,
                   top_n, data, locals, result, calls>>

\* self.scaler = self._load_scaler()
LoadScaler ==
    /\ pc = "load_scaler"
    /\ \/ \E sc \in SavedScalers :
             /\ scaler' = sc
             /\ pc' = "load_encoders"
             /\ result' = result
       \/ \E e \in {"Scaler file not found at app/ml_models/scaler.pkl. Please ensure the model is trained first.",
                    UnpicklingError} :
             /\ scaler' = scaler
             /\ pc' = "raised"
             /\ result' = construction_failure(e)
    /\ UNCHANGED <<model, label_encoders, feature_names, risk_thresholds,
                   top_n, data, locals, calls>>

\* self.label_encoders = self._load_label_encoders()
LoadEncoders ==
    /\ pc = "load_encoders"
    /\ \/ /\ label_encoders' = TrainedEncoders
          /\ pc' = "load_feature_names"
          /\ result' = result
       \/ \E e \in {"Label encoders file not found at app/ml_models/label_encoders.pkl. Please ensure the model is trained first.",
                    UnpicklingError} :
             /\ label_encoders' = label_encoders
             /\ pc' = "raised"
             /\ result' = construction_failure(e)
    /\ UNCHANGED <<model, scaler, feature_names, risk_thresholds,
                   top_n, data, locals, calls>>

\* self.feature_names = self._load_feature_names()
LoadFeatureNames ==
    /\ pc = "load_feature_names"
    /\ \/ \E names \in SavedFeatureNames :
             /\ feature_names' = names
             /\ pc' = "set_thresholds"
             /\ result' = result
       \/ \E e \in {"Feature names file not found at app/ml_models/feature_names.pkl. Please ensure the model is trained first.",
                    UnpicklingError} :
             /\ feature_names' = feature_names
             /\ pc' = "raised"
             /\ result' = construction_failure(e)
    /\ UNCHANGED <<model, scaler, label_encoders, risk_thresholds,
                   top_n, data, locals, calls>>

\* self.risk_thresholds = Config.RISK_THRESHOLDS; __init__ returns
SetThresholds ==
    /\ pc = "set_thresholds"
    /\ risk_thresholds' = Config_RISK_THRESHOLDS
    /\ pc' = "idle"
    /\ UNCHANGED <<model, scaler, label_encoders, feature_names,
                   top_n, data, locals, result, calls>>

NextConstruct ==
    \/ LoadModel
    \/ LoadScaler
    \/ LoadEncoders
    \/ LoadFeatureNames
    \/ SetThresholds
    \/ Next

SpecConstruct == InitConstruct /\ [][NextConstruct]_vars

\* __init__ is still running
Constructing ==
    pc \in {"load_model", "load_scaler", "load_encoders",
            "load_feature_names", "set_thresholds"}

\* ModelManager() raised: no instance was returned
ConstructionRaised == pc = "raised"

\* an instance exists (idle, or serving a request)
Constructed == ~Constructing /\ ~ConstructionRaised

\* C24: a failure to load the model, the scaler, the label encoders or the
\* feature-name list is fatal at construction: ModelManager() raises, an
\* instance exists only with all four loaded, and no request is served after
\* a failed load.
C24_LoadFailureFatal ==
    /\ Constructed =>
          /\ model \in Models
          /\ scaler \in SavedScalers
          /\ label_encoders = TrainedEncoders
          /\ feature_names \in SavedFeatureNames
          /\ risk_thresholds = Config_RISK_THRESHOLDS
    /\ result.body.status = "raised" <=> ConstructionRaised
    /\ ConstructionRaised =>
          /\ data = NoData
          /\ calls = << >>
          /\ \/ model = UnsetModel
             \/ scaler = UnsetScaler
             \/ label_encoders = UnsetEncoders
             \/ feature_names = << >>

C24_Witness ==
    /\ ConstructionRaised
    /\ model \in Models
    /\ scaler \in SavedScalers
    /\ label_encoders = UnsetEncoders
    /\ result.body.error = UnpicklingError

\* the loaded artifacts agree with the 7-feature schema and its column order
ArtifactsAgree ==
    /\ feature_names = ClaimedColumns
    /\ Len(scaler.mean_) = Len(ClaimedColumns)
    /\ Len(scaler.scale_) = Len(ClaimedColumns)
    /\ DOMAIN label_encoders = {"gender", "primary_diagnosis", "discharge_to"}
    /\ Len(_get_feature_importances(model)) = Len(ClaimedColumns)

\* the factors are scored from the importance of their own training column
FactorsAttributed ==
    result.body.contributing_factors =
       get_contributing_factors(data, _get_feature_importances(model),
                                TrainedFeatureNames, top_n)

\* C25 (as claimed): a mismatch between the loaded artifacts and the
\* 7-feature schema is detected at construction and is fatal there, so an
\* instance exists only with agreeing artifacts, and no completed result has
\* shortened or misattributed contributing factors.
C25_MismatchFatalAtConstruction ==
    /\ Constructed => ArtifactsAgree
    /\ Completed =>
          /\ Len(result.body.contributing_factors)
                = Min(top_n, Len(ClaimedColumns))
          /\ FactorsAttributed

-----------------------------------------------------------------------------
(* Concurrent predict calls on one ModelManager: in SpecConcurrent the      *)
(* artifacts are shared and every caller has its own frame, so the          *)
(* per-request variables are functions of the calling thread                *)

MaxThreads == 2

Threads == 1..MaxThreads

\* a valid record, a second one, a record the validator rejects and a record
\* the scaler raises on
ConcurrentRecords ==
    {E2ERecord, MildRecord,
     [E2ERecord EXCEPT !["age"] = 121],
     [MildRecord EXCEPT !["comorbidity_score"] = Inf]}

ConcurrentModels ==
    {ModelOf("tree", 72, ""), ModelOf("linear", 29, ""),
     ModelOf("opaque", 0, "model failure")}

InitConcurrent ==
    /\ model \in ConcurrentModels
    /\ scaler = TrainedScaler
    /\ label_encoders = TrainedEncoders
    /\ feature_names = TrainedFeatureNames
    /\ risk_thresholds = Config_RISK_THRESHOLDS
    /\ top_n = TopNDefault
    /\ pc = [t \in Threads |-> "idle"]
    /\ data = [t \in Threads |-> NoData]
    /\ X = [t \in Threads |-> << >>]
    /\ prediction_proba = [t \in Threads |-> 0]
    /\ feature_importances = [t \in Threads |-> << >>]
    /\ contributing_factors = [t \in Threads |-> << >>]
    /\ recommendations = [t \in Threads |-> EmptyRecommendations]
    /\ result = [t \in Threads |-> NoResult]
    /\ calls = [t \in Threads |-> << >>]

\* thread t invokes predict(d)
ThreadRequest(t) ==
    /\ pc[t] = "idle"
    /\ \E d \in ConcurrentRecords : data' = [data EXCEPT ![t] = d]
    /\ pc' = [pc EXCEPT ![t] = "validate"]
    /\ UNCHANGED <<artifacts, top_n, locals, result, calls>>

\* lines 30-35
ThreadValidate(t) ==
    /\ pc[t] = "validate"
    /\ calls' = [calls EXCEPT ![t] = Append(@, "validate_features")]
    /\ LET v == validate_features(data[t], label_encoders) IN
       IF ~v.is_valid
       THEN /\ result' = [result EXCEPT
                             ![t] = validation_failure(v.error_message)]
            /\ pc' = [pc EXCEPT ![t] = "done"]
       ELSE /\ result' = result
            /\ pc' = [pc EXCEPT ![t] = "preprocess"]
    /\ UNCHANGED <<artifacts, top_n, data, locals>>

\* line 38
ThreadPreprocess(t) ==
    /\ pc[t] = "preprocess"
    /\ calls' = [calls EXCEPT ![t] = Append(@, "preprocess_features")]
    /\ LET r == preprocess_features(data[t], label_encoders, scaler) IN
       IF r.raised # ""
       THEN /\ result' = [result EXCEPT ![t] = exception_failure(r.raised)]
            /\ pc' = [pc EXCEPT ![t] = "done"]
            /\ X' = X
       ELSE /\ X' = [X EXCEPT ![t] = r.X]
            /\ pc' = [pc EXCEPT ![t] = "predict_proba"]
            /\ result' = result
    /\ UNCHANGED <<artifacts, top_n, data, prediction_proba,
                   feature_importances, contributing_factors, recommendations>>

\* line 41
ThreadPredictProba(t) ==
    /\ pc[t] = "predict_proba"
    /\ calls' = [calls EXCEPT ![t] = Append(@, "predict_proba")]
    /\ LET r == predict_proba(model, X[t]) IN
       IF r.raised # ""
       THEN /\ result' = [result EXCEPT ![t] = exception_failure(r.raised)]
            /\ pc' = [pc EXCEPT ![t] = "done"]
            /\ prediction_proba' = prediction_proba
       ELSE /\ prediction_proba' = [prediction_proba EXCEPT ![t] = r.proba]
            /\ pc' = [pc EXCEPT ![t] = "importances"]
            /\ result' = result
    /\ UNCHANGED <<artifacts, top_n, data, X, feature_importances,
                   contributing_factors, recommendations>>

\* line 44
ThreadImportances(t) ==
    /\ pc[t] = "importances"
    /\ calls' = [calls EXCEPT ![t] = Append(@, "_get_feature_importances")]
    /\ feature_importances' =
          [feature_importances EXCEPT ![t] = _get_feature_importances(model)]
    /\ pc' = [pc EXCEPT ![t] = "factors"]
    /\ UNCHANGED <<artifacts, top_n, data, X, prediction_proba,
                   contributing_factors, recommendations, result>>

\* lines 47-49
ThreadFactors(t) ==
    /\ pc[t] = "factors"
    /\ calls' = [calls EXCEPT ![t] = Append(@, "get_contributing_factors")]
    /\ contributing_factors' =
          [contributing_factors EXCEPT
             ![t] = get_contributing_factors(data[t], feature_importances[t],
                                             feature_names, top_n)]
    /\ pc' = [pc EXCEPT ![t] = "recommend"]
    /\ UNCHANGED <<artifacts, top_n, data, X, prediction_proba,
                   feature_importances, recommendations, result>>

\* the recommendations dict kept in one place for all callers
ThreadRecommend_Shared(t) ==
    /\ pc[t] = "recommend"
    /\ calls' = [calls EXCEPT ![t] = Append(@, "generate_recommendations")]
    /\ recommendations' =
          [u \in Threads |->
             generate_recommendations(contributing_factors[t],
                                      prediction_proba[t])]
    /\ pc' = [pc EXCEPT ![t] = "respond"]
    /\ UNCHANGED <<artifacts, top_n, data, X, prediction_proba,
                   feature_importances, contributing_factors, result>>

\* lines 52-54: the dict is created inside the call
ThreadRecommend(t) ==
    /\ pc[t] = "recommend"
    /\ calls' = [calls EXCEPT ![t] = Append(@, "generate_recommendations")]
    /\ recommendations' =
          [recommendations EXCEPT
             ![t] = generate_recommendations(contributing_factors[t],
                                             prediction_proba[t])]
    /\ pc' = [pc EXCEPT ![t] = "respond"]
    /\ UNCHANGED <<artifacts, top_n, data, X, prediction_proba,
                   feature_importances, contributing_factors, result>>

\* lines 57-70
ThreadRespond(t) ==
    /\ pc[t] = "respond"
    /\ result' =
          [result EXCEPT
             ![t] = completed_response(prediction_proba[t],
                                       contributing_factors[t],
                                       recommendations[t], risk_thresholds)]
    /\ pc' = [pc EXCEPT ![t] = "done"]
    /\ UNCHANGED <<artifacts, top_n, data, locals, calls>>

NextConcurrent ==
    \E t \in Threads :
       \/ ThreadRequest(t)
       \/ ThreadValidate(t)
       \/ ThreadPreprocess(t)
       \/ ThreadPredictProba(t)
       \/ ThreadImportances(t)
       \/ ThreadFactors(t)
       \/ ThreadRecommend(t)
       \/ ThreadRespond(t)

SpecConcurrent == InitConcurrent /\ [][NextConcurrent]_vars

\* the result of predict(d) run on its own with the loaded artifacts
RunAlone(d) ==
    LET v == validate_features(d, TrainedEncoders)
        r == preprocess_features(d, TrainedEncoders, TrainedScaler)
        pp == predict_proba(model, r.X)
        factors == get_contributing_factors(d, _get_feature_importances(model),
                                            TrainedFeatureNames, TopNDefault)
        recs == generate_recommendations(factors, pp.proba)
    IN IF ~v.is_valid THEN validation_failure(v.error_message)
       ELSE IF r.raised # "" THEN exception_failure(r.raised)
       ELSE IF pp.raised # "" THEN exception_failure(pp.raised)
       ELSE completed_response(pp.proba, factors, recs, Config_RISK_THRESHOLDS)

\* every returned result is the one the request gets when run alone
ResultsAsAlone ==
    \A t \in Threads : pc[t] = "done" => result[t] = RunAlone(data[t])

\* a step leaves the shared artifacts and every submitted record as they were
SharedStateKept ==
    /\ artifacts' = artifacts
    /\ \A t \in Threads : pc[t] # "idle" => data'[t] = data[t]

\* C26: under any interleaving of concurrent predict calls on one
\* ModelManager no request mutates shared state (model, scaler, encoders,
\* feature names, thresholds unchanged by every step), each input record is
\* left unchanged, and each result equals the result of that request run
\* alone, also next to a failed request.
C26_RequestsIsolated == []ResultsAsAlone /\ [][SharedStateKept]_vars

C26_Witness ==
    /\ pc[1] = "done"
    /\ pc[2] = "done"
    /\ result[1].code = 500
    /\ result[2].code = 200
    /\ result[2] = RunAlone(E2ERecord)
    /\ data[1] # data[2]

-----------------------------------------------------------------------------
(* Ties in get_contributing_factors, under SpecTopN                         *)

\* position of a feature in the loaded feature-name list
Position(f) ==
    CHOOSE k \in 1..Len(feature_names) : feature_names[k] = f

\* features of the importance dict that were not returned
OmittedFeatures ==
    {feature_names[k] : k \in 1..FeatureCount} \ ReturnedFeatures

\* C27: features with equal weighted scores keep the order of the loaded
\* feature-name list, in the returned ranking and across the top_n cut: of
\* two tied features the earlier one is ranked first and is the one retained.
C27_TiesKeepOrder ==
    Explained =>
        /\ \A i, j \in 1..Len(contributing_factors) :
              (i < j /\ contributing_factors[i][2] = contributing_factors[j][2])
                 => Position(contributing_factors[i][1])
                       < Position(contributing_factors[j][1])
        /\ \A i \in 1..Len(contributing_factors) :
              \A g \in OmittedFeatures :
                 ClaimedScore(g) = contributing_factors[i][2]
                    => Position(contributing_factors[i][1]) < Position(g)

C27_Witness ==
    /\ Explained
    /\ top_n = 4
    /\ Len(contributing_factors) = top_n
    /\ contributing_factors[3][2] = contributing_factors[4][2]
    /\ contributing_factors[4][2] > 0
    /\ contributing_factors[3][1] = "age"
    /\ contributing_factors[4][1] = "gender"
    /\ "discharge_to" \in OmittedFeatures
    /\ ClaimedScore("discharge_to") = contributing_factors[4][2]

-----------------------------------------------------------------------------
(* The catalog and bucket emptiness, under SpecRec                          *)

\* a recommendation string without its urgency prefix
Unprefixed(str) ==
    IF StartsWith(str, UrgentPrefix)
    THEN SubSeq(str, Len(UrgentPrefix) + 1, Len(str))
    ELSE str

\* what the factors filed under bucket add to it as stated: the catalog list
\* of (factor, bucket) for the four catalogued factors, else the one generic
\* string
RECURSIVE StatedPart(_, _, _)
StatedPart(factors, bucket, tier) ==
    IF factors = << >> THEN << >>
    ELSE (IF RuleBucket(factors[1][2], tier) # bucket THEN << >>
          ELSE IF factors[1][1] \in {"comorbidity_score", "days_in_hospital",
                                     "primary_diagnosis", "num_procedures"}
          THEN base_recommendations[factors[1][1]][bucket]
          ELSE <<"Monitor and maintain current health management plan">>)
         \o StatedPart(Tail(factors), bucket, tier)

\* C28: each contributing factor adds to its bucket the catalog list keyed
\* by (factor name, bucket), three strings, when it is comorbidity_score,
\* days_in_hospital, primary_diagnosis or num_procedures, and one generic
\* string otherwise (age, gender, discharge_to); the key is the bucket the
\* factor was placed in, not the risk tier.
C28_CatalogByBucket ==
    /\ \A f \in DOMAIN base_recommendations :
          /\ \A b \in Buckets : Len(base_recommendations[f][b]) = 3
          /\ \A b, c \in Buckets :
                b # c => base_recommendations[f][b] # base_recommendations[f][c]
    /\ Recommended =>
          \A b \in Buckets :
             [i \in 1..Len(FactorPart(b)) |-> Unprefixed(FactorPart(b)[i])]
                = StatedPart(contributing_factors, b, TierOf(prediction_proba))

C28_Witness ==
    /\ Recommended
    /\ TierOf(prediction_proba) = "Low"
    /\ Len(contributing_factors) = 2
    /\ contributing_factors[1][1] = "comorbidity_score"
    /\ contributing_factors[1][2] > HighImportance
    /\ contributing_factors[2][1] = "age"
    /\ contributing_factors[2][2] > HighImportance
    /\ recommendations.high_priority =
          base_recommendations["comorbidity_score"].high
             \o GenericRecommendation

\* C29: bucket emptiness follows from the tier: with tier High medium_priority
\* and low_priority are empty; with tier Medium low_priority is empty; with
\* tier Low low_priority holds at least the five general strings; the bucket
\* matching the tier is never empty.
C29_BucketEmptiness ==
    Recommended =>
        LET tier == TierOf(prediction_proba) IN
        /\ tier = "High" =>
              /\ recommendations.medium_priority = << >>
              /\ recommendations.low_priority = << >>
              /\ recommendations.high_priority # << >>
        /\ tier = "Medium" =>
              /\ recommendations.low_priority = << >>
              /\ recommendations.medium_priority # << >>
        /\ tier = "Low" =>
              /\ Len(recommendations.low_priority) >= 5
              /\ SubSeq(recommendations.low_priority,
                        Len(recommendations.low_priority) - 4,
                        Len(recommendations.low_priority))
                    = general_recs.Low

C29_Witness ==
    /\ Recommended
    /\ TierOf(prediction_proba) = "Medium"
    /\ Len(contributing_factors) = 2
    /\ contributing_factors[1][2] = HighImportance + 1
    /\ contributing_factors[2][2] = 0
    /\ recommendations.low_priority = << >>
    /\ Len(recommendations.high_priority) > 0
    /\ Len(recommendations.medium_priority) > Len(general_recs.Medium)

-----------------------------------------------------------------------------
(* An error while the importance weights are read, under Spec               *)

\* reading the weights of the loaded model raises inside
\* _get_feature_importances
ImportanceReadRaises == model.kind = "faulty"

\* the uniform 1/7 weights
UniformSevenths == [i \in 1..7 |-> ImpScale \div 7]

\* C30: an error raised while the model's importance weights are read does
\* not fail the request: _get_feature_importances returns the uniform 1/7
\* vector and predict returns a completed result (code 200) whose
\* contributing factors are computed from the uniform weights.
C30_ImportanceErrorAbsorbed ==
    ImportanceReadRaises =>
        /\ ImportancesRead => feature_importances = UniformSevenths
        /\ (Done /\ SchemaValid(data) /\ ~StageRaises) =>
              /\ result.code = 200
              /\ result.body.status = "completed"
              /\ result.body.contributing_factors =
                    get_contributing_factors(data, UniformSevenths,
                                             ClaimedColumns, TopNDefault)

C30_Witness ==
    /\ ImportanceReadRaises
    /\ Completed
    /\ data = E2ERecord
    /\ Len(result.body.contributing_factors) = TopNDefault
    /\ result.body.contributing_factors[1][1] = "age"
    /\ result.body.contributing_factors[1][2] = 65 * (ImpScale \div 7) * 10

====
